---- MODULE Spec2Model ----
(***************************************************************************)
(* The analysis pipeline of the e-mail dossier client: the state of the    *)
(* AuthenticatedApp component (src/frontend/src/App.js) and the selection  *)
(* controls of SearchResults (src/unnamed/part_007), with every request to *)
(* the backend modelled as a message in flight.                            *)
(*                                                                         *)
(* One step of the model is one turn of the browser's event loop: a click  *)
(* handler up to its first await, or the continuation of a handler after   *)
(* the awaited response (or failure) has arrived.  React re-renders        *)
(* between turns, so a handler reads the state of the previous turn, and a *)
(* continuation reads the values its closure captured when the handler     *)
(* was called; those captured values travel in the request record.         *)
(*                                                                         *)
(* Text that the code trims or lower-cases is a sequence of one-character  *)
(* strings.  The banner texts (warning), the active tab and the form       *)
(* fields are display state that no handler branches on; the form fields   *)
(* are inputs of handleSearch, the other two are left out.                 *)
(*                                                                         *)
(* AuthenticatedApp is rendered by AppRouter while the isAuthenticated     *)
(* flag of AuthProvider (src/unnamed/part_002) is set.  When the flag is   *)
(* cleared the component is unmounted and its state is discarded; the      *)
(* model then holds the useState initial values, which are what the next   *)
(* mount starts from.  The handlers of the unmounted component that are    *)
(* waiting for a response go on when it arrives: what they write to the    *)
(* state is lost, what they send is sent.  isLoggingOut only disables the  *)
(* logout button and is left out.                                          *)
(*                                                                         *)
(* What the reports show is computed from their props alone: the markup    *)
(* conversions (src/src/utils/parseOutput.js, ClientDossierReport) and the *)
(* lists of AnalysisReport are operators, each applied by an action of a   *)
(* specification that starts from the props.                               *)
(***************************************************************************)
EXTENDS Integers, Sequences, FiniteSets, TLC

VARIABLES
    isAuthenticated,        \* part_002:15  AuthProvider: the user is logged in
    authIsLoading,          \* part_002:17  AuthProvider isLoading: no check has answered
    authChecks,             \* calls of checkAuthStatus that wait for their answer
    loginScreen,            \* part_006:199-201  LoginScreen: isLoading, error, showConsent
    loginPosts,             \* calls of handleLogin that wait for their answer
    isLoading,              \* App.js:720  search in flight
    error,                  \* App.js:721  the one error banner
    keywordError,           \* App.js:729
    searchResults,          \* App.js:723  sequence of thread ids
    selectedThreads,        \* App.js:724  sequence of thread ids
    isProcessing,           \* App.js:725
    processedMetadata,      \* App.js:726  Null or a metadata record
    isAnalyzing,            \* App.js:727
    analysisResults,        \* App.js:728  Null or an analysis record
    meetingDossier,         \* App.js:732
    clientDossier,          \* App.js:733
    isGeneratingMeeting,    \* App.js:734
    isGeneratingClient,     \* App.js:735
    selectedClientName,     \* App.js:737
    customClientName,       \* App.js:739
    showCustomClientInput,  \* App.js:740
    net,                    \* requests awaiting their response, in order of issue
    unmounted,              \* requests of a component that has been unmounted since
    lastOp,                 \* history: the step taken last
    report                  \* the report function applied last: its props and its result

vars == <<isAuthenticated, authIsLoading, authChecks, loginScreen, loginPosts, isLoading, error, keywordError, searchResults, selectedThreads,
          isProcessing, processedMetadata, isAnalyzing, analysisResults,
          meetingDossier, clientDossier, isGeneratingMeeting, isGeneratingClient,
          selectedClientName, customClientName, showCustomClientInput, net, unmounted, lastOp,
          report>>

\* the state of the component and of its requests
component == <<isAuthenticated, authIsLoading, authChecks, loginScreen, loginPosts, isLoading, error, keywordError, searchResults,
               selectedThreads, isProcessing, processedMetadata, isAnalyzing,
               analysisResults, meetingDossier, clientDossier, isGeneratingMeeting,
               isGeneratingClient, selectedClientName, customClientName,
               showCustomClientInput, net, unmounted, lastOp>>

---------------------------------------------------------------------------
(* Bounds *)

MaxThread == 2        \* thread ids 1..MaxThread
MaxResults == 2       \* rows in an answer of the search, for what depends on the selection
MaxDate == 2          \* dates 1..MaxDate
MaxStrLen == 1        \* length of a typed keyword or sender e-mail
MaxInFlight == 3      \* requests in flight up to which a handler is called as a function

---------------------------------------------------------------------------
(* Values *)

Null == [isNull |-> TRUE]

ThreadIds == 1..MaxThread
Dates == 1..MaxDate

\* Characters of typed text: a blank and a letter.
Chars == {" ", "a"}

RECURSIVE TextsUpTo(_)
TextsUpTo(n) ==
    IF n = 0 THEN {<<>>}
    ELSE LET shorter == TextsUpTo(n - 1)
         IN  shorter \cup {Append(t, c) : t \in {s \in shorter : Len(s) = n - 1}, c \in Chars}

Texts == TextsUpTo(MaxStrLen)

\* Client names, as character sequences.
Acme == <<"A", "c">>
Beta == <<"B">>
UnknownClient == <<"U", "n", "k", "n", "o", "w", "n", " ", "C", "l", "i", "e", "n", "t">>
unknown_client == <<"u", "n", "k", "n", "o", "w", "n", " ", "c", "l", "i", "e", "n", "t">>
custom == <<"c", "u", "s", "t", "o", "m">>
\* the sentinel in another case: equal to 'unknown client' once lower-cased
Unknown_client == <<"U", "n", "k", "n", "o", "w", "n", " ", "c", "l", "i", "e", "n", "t">>
Zed == <<"Z">>

\* Error banners of App.js.
ErrKeywordRequired == "Either keyword or sender email is required."
ErrDateOrder == "Start date cannot be after end date."
ErrAuthExpired == "Authentication expired. Please refresh the page to log in again."
ErrSearchFailed == "getErrorMessage(error)"
ErrProcess == "An error occurred while processing threads. Please try again."
ErrSummary == "An error occurred while generating past summary. Please try again."
ErrMeeting == "An error occurred while generating meeting flow. Please try again."
ErrClient == "An error occurred while generating client dossier. Please try again."
ErrLogin == "Failed to initiate login. Please try again."
ErrNoClientName == "No client name found in the processed threads. Cannot generate client dossier."

---------------------------------------------------------------------------
(* String.prototype.trim and toLowerCase *)

IsSpace(c) == c = " "

RECURSIVE TrimLeft(_)
TrimLeft(s) == IF s # <<>> /\ IsSpace(Head(s)) THEN TrimLeft(Tail(s)) ELSE s

RECURSIVE TrimRight(_)
TrimRight(s) ==
    IF s # <<>> /\ IsSpace(s[Len(s)]) THEN TrimRight(SubSeq(s, 1, Len(s) - 1)) ELSE s

Trim(s) == TrimRight(TrimLeft(s))

LowerChar(c) ==
    CASE c = "A" -> "a" [] c = "B" -> "b" [] c = "C" -> "c" [] c = "U" -> "u"
      [] c = "Z" -> "z" [] OTHER -> c

ToLowerCase(s) == [i \in 1..Len(s) |-> LowerChar(s[i])]

---------------------------------------------------------------------------
(* Sequences of thread ids *)

Includes(s, x) == \E i \in 1..Len(s) : s[i] = x

RECURSIVE Filter(_, _)
\* prev.filter(id => id !== x)
Filter(s, x) ==
    IF s = <<>> THEN <<>>
    ELSE IF Head(s) = x THEN Filter(Tail(s), x)
         ELSE <<Head(s)>> \o Filter(Tail(s), x)

Range(s) == {s[i] : i \in 1..Len(s)}

RemoveAt(s, i) == SubSeq(s, 1, i - 1) \o SubSeq(s, i + 1, Len(s))

---------------------------------------------------------------------------
(* Requests and the answers of the backend services *)

\* A request in flight.  handler names the handler whose await it is; ids,
\* analysis and name are the request body; stale records that a search was
\* started after the handler was called.
Request(handler, api, ids, analysis, name) ==
    [handler |-> handler, api |-> api, ids |-> ids, analysis |-> analysis,
     name |-> name, stale |-> FALSE]

\* POST /api/find_threads answers with a list of threads, stored as it
\* comes: in any order, a thread any number of times, up to n rows.
SearchResponses(threads, n) == UNION {[1..k -> threads] : k \in 0..n}

\* POST /api/process_threads_metadata answers with the metadata of the
\* threads it was sent.
MetadataResponses(req, nameLists) ==
    {[processed_thread_ids |-> req.ids, available_client_names |-> n] : n \in nameLists}

\* POST /api/analyze_multiple_threads answers with an analysis; the model
\* keeps the one field a handler reads, structured_analysis.client_name
\* (<<>> when it is missing).
AnalysisResponses(req, analysisNames) == {[client_name |-> c] : c \in analysisNames}

\* POST /api/generate_meeting_dossier: a dossier, or an empty body
\* (response.data || null).
MeetingResponses(req) == {Null, [meeting_flow |-> "text"]}

\* POST /api/generate_client_dossier: a dossier, or an empty body.
ClientResponses(req) == {Null, [client_dossier |-> "text"]}

Op(name) == [op |-> name, stale |-> FALSE, args |-> <<>>]
OpOn(name, req) == [op |-> name, stale |-> req.stale, args |-> <<>>]

\* The requests of one handler that are in flight.
InFlight(handler) == {i \in 1..Len(net) : net[i].handler = handler}

---------------------------------------------------------------------------
(* State after construction: the useState initial values *)

\* LoginScreen as it is mounted
LoginScreenInitial == [isLoading |-> FALSE, error |-> "", showConsent |-> FALSE]

InitialState ==
    /\ isAuthenticated = FALSE
    /\ loginScreen = LoginScreenInitial
    /\ loginPosts = 0
    /\ isLoading = FALSE
    /\ error = ""
    /\ keywordError = FALSE
    /\ searchResults = <<>>
    /\ selectedThreads = <<>>
    /\ isProcessing = FALSE
    /\ processedMetadata = Null
    /\ isAnalyzing = FALSE
    /\ analysisResults = Null
    /\ meetingDossier = Null
    /\ clientDossier = Null
    /\ isGeneratingMeeting = FALSE
    /\ isGeneratingClient = FALSE
    /\ selectedClientName = <<>>
    /\ customClientName = <<>>
    /\ showCustomClientInput = FALSE
    /\ net = <<>>
    /\ unmounted = <<>>
    /\ lastOp = Op("init")

\* The page is loaded: AuthProvider is constructed and its effect calls
\* checkAuthStatus; handleOAuthCallback reads the auth parameter of the
\* address.  With auth=success a second call of checkAuthStatus is set for
\* half a second later, with auth=error isLoading is cleared at once.
Loaded(callback) ==
    /\ authIsLoading = (callback # "error")
    /\ authChecks = IF callback = "success" THEN 2 ELSE 1

\* No report has been rendered: AnalysisReport is rendered once
\* analysisResults is set.
Init(D) == InitialState /\ (\E callback \in D.callbacks : Loaded(callback)) /\ report = Null

---------------------------------------------------------------------------
(* Search *)

\* Mutation: the search button is never disabled.
SearchButtonDisabled_never == FALSE

\* <SearchButton disabled={isLoading}>
SearchButtonDisabled == isLoading

\* Mutation: the fields are tested without trim().
NoCriteria_untrimmed(keyword, senderEmail) == keyword = <<>> /\ senderEmail = <<>>

\* if (!keyword.trim() && !senderEmail.trim())
NoCriteria(keyword, senderEmail) == Trim(keyword) = <<>> /\ Trim(senderEmail) = <<>>

\* if (startDate > endDate)
DatesReversed(startDate, endDate) == startDate > endDate

\* A search marks what is in flight as sent before it.
MarkStale(reqs) == [i \in 1..Len(reqs) |-> [reqs[i] EXCEPT !.stale = TRUE]]

\* Mutation: a rejected search returns without clearing the flag.
LoadingAfterRejection_stuck == TRUE

\* setIsLoading(false); return;
LoadingAfterRejection == FALSE

\* handleSearch, up to its await or its early return.
handleSearch(keyword, senderEmail, startDate, endDate) ==
    /\ searchResults' = <<>>
    /\ selectedThreads' = <<>>
    /\ processedMetadata' = Null
    /\ analysisResults' = Null
    /\ meetingDossier' = Null
    /\ clientDossier' = Null
    /\ selectedClientName' = <<>>
    /\ IF NoCriteria(keyword, senderEmail)
       THEN /\ error' = ErrKeywordRequired
            /\ keywordError' = TRUE
            /\ isLoading' = LoadingAfterRejection
            /\ net' = net
       ELSE IF DatesReversed(startDate, endDate)
       THEN /\ error' = ErrDateOrder
            /\ keywordError' = FALSE
            /\ isLoading' = LoadingAfterRejection
            /\ net' = net
       ELSE /\ error' = ""
            /\ keywordError' = FALSE
            /\ isLoading' = TRUE
            /\ net' = Append(MarkStale(net), Request("search", "find_threads", <<>>, Null, <<>>))
    /\ lastOp' = [op |-> "handleSearch", stale |-> FALSE,
                  args |-> <<keyword, senderEmail, startDate, endDate>>]
    /\ UNCHANGED <<loginScreen, loginPosts, authIsLoading, authChecks, report, isAuthenticated, unmounted, isProcessing, isAnalyzing, isGeneratingMeeting, isGeneratingClient,
                   customClientName, showCustomClientInput>>

\* A click on the search button, with the form as the user filled it.
Search(D) ==
    /\ isAuthenticated
    /\ ~SearchButtonDisabled
    /\ \E k \in D.keywords, s \in D.senders, sd \in D.dates, ed \in D.dates :
          handleSearch(k, s, sd, ed)

\* handleSearch after the await: setSearchResults(response.data).
SearchSucceeds(D) ==
    \E i \in InFlight("search"), data \in SearchResponses(D.threads, D.results) :
        /\ searchResults' = data
        /\ isLoading' = FALSE
        /\ net' = RemoveAt(net, i)
        /\ lastOp' = [op |-> "searchOk", stale |-> net[i].stale, args |-> <<data>>]
        /\ UNCHANGED <<loginScreen, loginPosts, authIsLoading, authChecks, report, isAuthenticated, unmounted, error, keywordError, selectedThreads, isProcessing, processedMetadata,
                       isAnalyzing, analysisResults, meetingDossier, clientDossier,
                       isGeneratingMeeting, isGeneratingClient, selectedClientName,
                       customClientName, showCustomClientInput>>

\* handleSearch, the catch block: isAuthError(error) or not.
SearchFails ==
    \E i \in InFlight("search"), isAuthError \in BOOLEAN :
        /\ error' = IF isAuthError THEN ErrAuthExpired ELSE ErrSearchFailed
        /\ isLoading' = FALSE
        /\ net' = RemoveAt(net, i)
        /\ lastOp' = OpOn("searchFailed", net[i])
        /\ UNCHANGED <<loginScreen, loginPosts, authIsLoading, authChecks, report, isAuthenticated, unmounted, keywordError, searchResults, selectedThreads, isProcessing,
                       processedMetadata, isAnalyzing, analysisResults, meetingDossier,
                       clientDossier, isGeneratingMeeting, isGeneratingClient,
                       selectedClientName, customClientName, showCustomClientInput>>

\* The keyword input's onChange: setKeywordError(false).
KeywordChange ==
    /\ keywordError
    /\ keywordError' = FALSE
    /\ lastOp' = Op("keywordChange")
    /\ UNCHANGED <<loginScreen, loginPosts, authIsLoading, authChecks, report, isAuthenticated, unmounted, isLoading, error, searchResults, selectedThreads, isProcessing,
                   processedMetadata, isAnalyzing, analysisResults, meetingDossier,
                   clientDossier, isGeneratingMeeting, isGeneratingClient,
                   selectedClientName, customClientName, showCustomClientInput, net>>

---------------------------------------------------------------------------
(* Selection *)

\* {searchResults.length > 0 && <SearchResults ... />}
ResultsShown == searchResults # <<>>

\* Mutation: the id is appended without looking for it.
Toggle_appendOnly(prev, threadId) == Append(prev, threadId)

\* prev.includes(threadId) ? prev.filter(id => id !== threadId) : [...prev, threadId]
Toggle(prev, threadId) ==
    IF Includes(prev, threadId) THEN Filter(prev, threadId) ELSE Append(prev, threadId)

RECURSIVE ToggleEach(_, _)
\* ids.forEach(id => onThreadToggle(id)): the updaters run in order.
ToggleEach(prev, ids) ==
    IF ids = <<>> THEN prev ELSE ToggleEach(Toggle(prev, Head(ids)), Tail(ids))

RECURSIVE NotIncluded(_, _)
\* the results the forEach of toggleSelectAll toggles: those not selected
NotIncluded(results, selected) ==
    IF results = <<>> THEN <<>>
    ELSE IF Includes(selected, Head(results)) THEN NotIncluded(Tail(results), selected)
         ELSE <<Head(results)>> \o NotIncluded(Tail(results), selected)

SelectionOnly(op) ==
    /\ lastOp' = Op(op)
    /\ UNCHANGED <<loginScreen, loginPosts, authIsLoading, authChecks, report, isAuthenticated, unmounted, isLoading, error, keywordError, searchResults, isProcessing,
                   processedMetadata, isAnalyzing, analysisResults, meetingDossier,
                   clientDossier, isGeneratingMeeting, isGeneratingClient,
                   selectedClientName, customClientName, showCustomClientInput, net>>

\* handleThreadToggle, from a click on a thread of the list.
handleThreadToggle(threadId) ==
    /\ ResultsShown
    /\ Includes(searchResults, threadId)
    /\ selectedThreads' = Toggle(selectedThreads, threadId)
    /\ SelectionOnly("toggle")

ThreadToggle == \E id \in Range(searchResults) : handleThreadToggle(id)

\* results.length > 0 && selectedThreads.length === results.length
allSelected == Len(searchResults) > 0 /\ Len(selectedThreads) = Len(searchResults)

\* toggleSelectAll of SearchResults.
toggleSelectAll ==
    /\ ResultsShown
    /\ selectedThreads' =
          IF allSelected THEN ToggleEach(selectedThreads, selectedThreads)
          ELSE ToggleEach(selectedThreads, NotIncluded(searchResults, selectedThreads))
    /\ SelectionOnly("selectAll")

\* The sticky bar is rendered for a non-empty selection; its buttons are
\* disabled={isLoading}, and SearchResults gets isLoading={isProcessing}.
StickyBarShown == ResultsShown /\ Len(selectedThreads) > 0
ProcessButtonDisabled == isProcessing

\* <ClearButton>: selectedThreads.forEach(id => onThreadToggle(id))
ClearSelection ==
    /\ StickyBarShown
    /\ ~ProcessButtonDisabled
    /\ selectedThreads' = ToggleEach(selectedThreads, selectedThreads)
    /\ SelectionOnly("clear")

---------------------------------------------------------------------------
(* Process *)

\* Mutation: no early return.
EmptySelection_never == FALSE

\* if (selectedThreads.length === 0) return;
EmptySelection == Len(selectedThreads) = 0

\* Mutation: the analysis survives a replay of the processed selection.
AnalysisAfterProcessStart_kept ==
    IF processedMetadata # Null /\ processedMetadata.processed_thread_ids = selectedThreads
    THEN analysisResults ELSE Null

\* setAnalysisResults(null), whatever the selection was before
AnalysisAfterProcessStart == Null

\* handleProcessThreads, up to its await or its early return.  The history
\* keeps the analysis and the metadata the call found.
handleProcessThreads ==
    IF EmptySelection
    THEN /\ lastOp' = Op("processEmpty")
         /\ UNCHANGED <<loginScreen, loginPosts, authIsLoading, authChecks, report, isAuthenticated, unmounted, isLoading, error, keywordError, searchResults, selectedThreads,
                        isProcessing, processedMetadata, isAnalyzing, analysisResults,
                        meetingDossier, clientDossier, isGeneratingMeeting,
                        isGeneratingClient, selectedClientName, customClientName,
                        showCustomClientInput, net>>
    ELSE /\ isProcessing' = TRUE
         /\ error' = ""
         /\ processedMetadata' = Null
         /\ analysisResults' = AnalysisAfterProcessStart
         /\ net' = Append(net, Request("process", "process_threads_metadata",
                                       selectedThreads, Null, <<>>))
         /\ lastOp' = [op |-> "process", stale |-> FALSE,
                       args |-> <<analysisResults, processedMetadata>>]
         /\ UNCHANGED <<loginScreen, loginPosts, authIsLoading, authChecks, report, isAuthenticated, unmounted, isLoading, keywordError, searchResults, selectedThreads, isAnalyzing,
                        meetingDossier, clientDossier, isGeneratingMeeting,
                        isGeneratingClient, selectedClientName, customClientName,
                        showCustomClientInput>>

\* A click on <ProcessButton onClick={onProcessSelected} disabled={isLoading}>.
ProcessClick ==
    /\ StickyBarShown
    /\ ~ProcessButtonDisabled
    /\ handleProcessThreads

\* handleProcessThreads after the await: setProcessedMetadata(response.data).
ProcessSucceeds(D) ==
    \E i \in InFlight("process") : \E data \in MetadataResponses(net[i], D.nameLists) :
        /\ processedMetadata' = data
        /\ isProcessing' = FALSE
        /\ net' = RemoveAt(net, i)
        /\ lastOp' = OpOn("processOk", net[i])
        /\ UNCHANGED <<loginScreen, loginPosts, authIsLoading, authChecks, report, isAuthenticated, unmounted, isLoading, error, keywordError, searchResults, selectedThreads,
                       isAnalyzing, analysisResults, meetingDossier, clientDossier,
                       isGeneratingMeeting, isGeneratingClient, selectedClientName,
                       customClientName, showCustomClientInput>>

\* Mutation: the catch block also drops the selection.
ProcessFails_clearsSelection ==
    \E i \in InFlight("process") :
        /\ error' = ErrProcess
        /\ isProcessing' = FALSE
        /\ selectedThreads' = <<>>
        /\ net' = RemoveAt(net, i)
        /\ lastOp' = OpOn("processFailed", net[i])
        /\ UNCHANGED <<loginScreen, loginPosts, authIsLoading, authChecks, report, isAuthenticated, unmounted, isLoading, keywordError, searchResults,
                       processedMetadata, isAnalyzing, analysisResults, meetingDossier,
                       clientDossier, isGeneratingMeeting, isGeneratingClient,
                       selectedClientName, customClientName, showCustomClientInput>>

\* handleProcessThreads, the catch block.
ProcessFails ==
    \E i \in InFlight("process") :
        /\ error' = ErrProcess
        /\ isProcessing' = FALSE
        /\ net' = RemoveAt(net, i)
        /\ lastOp' = OpOn("processFailed", net[i])
        /\ UNCHANGED <<loginScreen, loginPosts, authIsLoading, authChecks, report, isAuthenticated, unmounted, isLoading, keywordError, searchResults, selectedThreads,
                       processedMetadata, isAnalyzing, analysisResults, meetingDossier,
                       clientDossier, isGeneratingMeeting, isGeneratingClient,
                       selectedClientName, customClientName, showCustomClientInput>>

---------------------------------------------------------------------------
(* Generate *)

\* {processedMetadata && (<> the three buttons, the client choice, Start Over </>)}
GenerateShown == processedMetadata # Null

\* disabled={isAnalyzing || isGeneratingMeeting || isGeneratingClient}
PastSummaryDisabled == isAnalyzing \/ isGeneratingMeeting \/ isGeneratingClient
\* disabled={isGeneratingMeeting || isAnalyzing || isGeneratingClient}
MeetingFlowDisabled == isGeneratingMeeting \/ isAnalyzing \/ isGeneratingClient
\* Mutation: the client button looks at its own flag only.
ClientDossierDisabled_ownFlag == isGeneratingClient

\* disabled={isGeneratingClient || isAnalyzing || isGeneratingMeeting}
ClientDossierDisabled == isGeneratingClient \/ isAnalyzing \/ isGeneratingMeeting
\* Start Over: disabled={isAnalyzing || isGeneratingMeeting || isGeneratingClient}
StartOverDisabled == isAnalyzing \/ isGeneratingMeeting \/ isGeneratingClient

NoOp(op) ==
    /\ lastOp' = Op(op)
    /\ UNCHANGED <<loginScreen, loginPosts, authIsLoading, authChecks, report, isAuthenticated, unmounted, isLoading, error, keywordError, searchResults, selectedThreads,
                   isProcessing, processedMetadata, isAnalyzing, analysisResults,
                   meetingDossier, clientDossier, isGeneratingMeeting,
                   isGeneratingClient, selectedClientName, customClientName,
                   showCustomClientInput, net>>

\* if (analysisResults) analysisData = analysisResults; else await axios.post(...)
SummaryUsesCache == analysisResults # Null

\* handleGeneratePastSummary, up to its await or its end.
handleGeneratePastSummary ==
    IF processedMetadata = Null THEN NoOp("summaryNoMetadata")
    ELSE /\ error' = ""
         /\ IF SummaryUsesCache
            THEN \* no await: the handler runs to its finally in this turn
                 /\ analysisResults' = Null
                 /\ isAnalyzing' = FALSE
                 /\ net' = net
                 /\ lastOp' = Op("summaryCached")
            ELSE /\ analysisResults' = Null
                 /\ isAnalyzing' = TRUE
                 /\ net' = Append(net, Request("summary", "analyze_multiple_threads",
                                               processedMetadata.processed_thread_ids,
                                               Null, <<>>))
                 /\ lastOp' = Op("summary")
         /\ UNCHANGED <<loginScreen, loginPosts, authIsLoading, authChecks, report, isAuthenticated, unmounted, isLoading, keywordError, searchResults, selectedThreads,
                        isProcessing, processedMetadata, meetingDossier, clientDossier,
                        isGeneratingMeeting, isGeneratingClient, selectedClientName,
                        customClientName, showCustomClientInput>>

PastSummaryClick ==
    /\ GenerateShown
    /\ ~PastSummaryDisabled
    /\ handleGeneratePastSummary

\* handleGeneratePastSummary after the await: setAnalysisResults(analysisData).
SummarySucceeds(D) ==
    \E i \in InFlight("summary") : \E data \in AnalysisResponses(net[i], D.analysisNames) :
        /\ analysisResults' = data
        /\ isAnalyzing' = FALSE
        /\ net' = RemoveAt(net, i)
        /\ lastOp' = OpOn("summaryOk", net[i])
        /\ UNCHANGED <<loginScreen, loginPosts, authIsLoading, authChecks, report, isAuthenticated, unmounted, isLoading, error, keywordError, searchResults, selectedThreads,
                       isProcessing, processedMetadata, meetingDossier, clientDossier,
                       isGeneratingMeeting, isGeneratingClient, selectedClientName,
                       customClientName, showCustomClientInput>>

SummaryFails ==
    \E i \in InFlight("summary") :
        /\ error' = ErrSummary
        /\ isAnalyzing' = FALSE
        /\ net' = RemoveAt(net, i)
        /\ lastOp' = OpOn("summaryFailed", net[i])
        /\ UNCHANGED <<loginScreen, loginPosts, authIsLoading, authChecks, report, isAuthenticated, unmounted, isLoading, keywordError, searchResults, selectedThreads,
                       isProcessing, processedMetadata, analysisResults, meetingDossier,
                       clientDossier, isGeneratingMeeting, isGeneratingClient,
                       selectedClientName, customClientName, showCustomClientInput>>

\* Mutation: the analysis is requested again although one is cached.
MeetingUsesCache_never == FALSE

\* let analysisData = analysisResults; if (!analysisData) { await axios.post(...) }
MeetingUsesCache == analysisResults # Null

\* Mutation: the handler leaves the banner of an earlier failure in place.
ErrorAfterMeetingStart_kept == error

\* setError('')
ErrorAfterMeetingStart == ""

\* handleGenerateMeetingFlow, up to its first await.  The history keeps the
\* error banner the call found.
handleGenerateMeetingFlow ==
    IF processedMetadata = Null THEN NoOp("meetingNoMetadata")
    ELSE /\ isGeneratingMeeting' = TRUE
         /\ error' = ErrorAfterMeetingStart
         /\ IF MeetingUsesCache
            THEN /\ net' = Append(net, Request("meeting", "generate_meeting_dossier",
                                               <<>>, analysisResults, <<>>))
                 /\ lastOp' = [op |-> "meetingCached", stale |-> FALSE, args |-> <<error>>]
            ELSE /\ net' = Append(net, Request("meeting", "analyze_multiple_threads",
                                               processedMetadata.processed_thread_ids,
                                               Null, <<>>))
                 /\ lastOp' = [op |-> "meeting", stale |-> FALSE, args |-> <<error>>]
         /\ UNCHANGED <<loginScreen, loginPosts, authIsLoading, authChecks, report, isAuthenticated, unmounted, isLoading, keywordError, searchResults, selectedThreads,
                        isProcessing, processedMetadata, isAnalyzing, analysisResults,
                        meetingDossier, clientDossier, isGeneratingClient,
                        selectedClientName, customClientName, showCustomClientInput>>

MeetingFlowClick ==
    /\ GenerateShown
    /\ ~MeetingFlowDisabled
    /\ handleGenerateMeetingFlow

\* Mutation: the analysis that arrived is stored as the cached analysis.
AnalysisAfterMeetingAnalysis_cached(analysisData) == analysisData

\* analysisData = analysisResponse.data; // setAnalysisResults(analysisData);
\* the call is commented out, the state keeps what it has.
AnalysisAfterMeetingAnalysis(analysisData) == analysisResults

\* handleGenerateMeetingFlow between its two awaits: the analysis has arrived,
\* is kept in the local analysisData only, and the dossier request is sent.
MeetingAnalysisSucceeds(D) ==
    \E i \in InFlight("meeting") : \E data \in AnalysisResponses(net[i], D.analysisNames) :
        /\ net[i].api = "analyze_multiple_threads"
        /\ analysisResults' = AnalysisAfterMeetingAnalysis(data)
        /\ net' = Append(RemoveAt(net, i),
                         [Request("meeting", "generate_meeting_dossier", <<>>, data, <<>>)
                            EXCEPT !.stale = net[i].stale])
        /\ lastOp' = OpOn("meetingAnalysisOk", net[i])
        /\ UNCHANGED <<loginScreen, loginPosts, authIsLoading, authChecks, report, isAuthenticated, unmounted, isLoading, error, keywordError, searchResults, selectedThreads,
                       isProcessing, processedMetadata, isAnalyzing,
                       meetingDossier, clientDossier, isGeneratingMeeting,
                       isGeneratingClient, selectedClientName, customClientName,
                       showCustomClientInput>>

\* handleGenerateMeetingFlow after the second await:
\* setMeetingDossier(response.data || null).
MeetingSucceeds ==
    \E i \in InFlight("meeting") : \E data \in MeetingResponses(net[i]) :
        /\ net[i].api = "generate_meeting_dossier"
        /\ meetingDossier' = data
        /\ isGeneratingMeeting' = FALSE
        /\ net' = RemoveAt(net, i)
        /\ lastOp' = OpOn("meetingOk", net[i])
        /\ UNCHANGED <<loginScreen, loginPosts, authIsLoading, authChecks, report, isAuthenticated, unmounted, isLoading, error, keywordError, searchResults, selectedThreads,
                       isProcessing, processedMetadata, isAnalyzing, analysisResults,
                       clientDossier, isGeneratingClient, selectedClientName,
                       customClientName, showCustomClientInput>>

\* handleGenerateMeetingFlow, the catch block, for either request.
MeetingFails ==
    \E i \in InFlight("meeting") :
        /\ error' = ErrMeeting
        /\ isGeneratingMeeting' = FALSE
        /\ net' = RemoveAt(net, i)
        /\ lastOp' = OpOn("meetingFailed", net[i])
        /\ UNCHANGED <<loginScreen, loginPosts, authIsLoading, authChecks, report, isAuthenticated, unmounted, isLoading, keywordError, searchResults, selectedThreads,
                       isProcessing, processedMetadata, isAnalyzing, analysisResults,
                       meetingDossier, clientDossier, isGeneratingClient,
                       selectedClientName, customClientName, showCustomClientInput>>

---------------------------------------------------------------------------
(* Client dossier *)

\* Mutation: the name of the analysis is looked at before the custom name.
ResolveClientName_analysisFirst ==
    IF analysisResults # Null /\ analysisResults.client_name # <<>>
    THEN IF ToLowerCase(analysisResults.client_name) # unknown_client
         THEN analysisResults.client_name
         ELSE UnknownClient
    ELSE IF showCustomClientInput /\ Trim(customClientName) # <<>>
    THEN Trim(customClientName)
    ELSE IF selectedClientName # <<>> /\ selectedClientName # custom
    THEN selectedClientName
    ELSE UnknownClient

\* The cascade of handleGenerateClientDossierFromMetadata that picks the
\* client name; 'Unknown Client' when no branch assigns one.
ResolveClientName ==
    IF showCustomClientInput /\ Trim(customClientName) # <<>>
    THEN Trim(customClientName)
    ELSE IF selectedClientName # <<>> /\ selectedClientName # custom
    THEN selectedClientName
    ELSE IF analysisResults # Null /\ analysisResults.client_name # <<>>
    THEN IF ToLowerCase(analysisResults.client_name) # unknown_client
         THEN analysisResults.client_name
         ELSE UnknownClient
    ELSE IF Len(processedMetadata.available_client_names) > 0
    THEN LET metadataClientName == processedMetadata.available_client_names[1]
         IN  IF metadataClientName # <<>> /\ ToLowerCase(metadataClientName) # unknown_client
             THEN metadataClientName
             ELSE UnknownClient
    ELSE UnknownClient

\* if (!clientName || clientName === 'Unknown Client')
NoClientName(clientName) == clientName = <<>> \/ clientName = UnknownClient

\* Mutation: the handler asks for an analysis before the dossier.
ClientRequest_analysisFirst(clientName) ==
    Request("client", "analyze_multiple_threads", processedMetadata.processed_thread_ids,
            Null, clientName)

\* axios.post(buildApiUrl('/api/generate_client_dossier'), {client_name: clientName, ...}):
\* the one request of the handler.
ClientRequest(clientName) ==
    Request("client", "generate_client_dossier", <<>>, Null, clientName)

\* handleGenerateClientDossierFromMetadata, up to its await or an early return.
handleGenerateClientDossierFromMetadata ==
    IF processedMetadata = Null THEN NoOp("clientNoMetadata")
    ELSE LET clientName == ResolveClientName
         IN  /\ IF NoClientName(clientName)
                THEN /\ error' = ErrNoClientName
                     /\ isGeneratingClient' = isGeneratingClient
                     /\ net' = net
                     /\ lastOp' = Op("clientUnresolved")
                ELSE /\ error' = ""
                     /\ isGeneratingClient' = TRUE
                     /\ net' = Append(net, ClientRequest(clientName))
                     /\ lastOp' = Op("client")
             /\ UNCHANGED <<loginScreen, loginPosts, authIsLoading, authChecks, report, isAuthenticated, unmounted, isLoading, keywordError, searchResults, selectedThreads,
                            isProcessing, processedMetadata, isAnalyzing, analysisResults,
                            meetingDossier, clientDossier, isGeneratingMeeting,
                            selectedClientName, customClientName, showCustomClientInput>>

ClientDossierClick ==
    /\ GenerateShown
    /\ ~ClientDossierDisabled
    /\ handleGenerateClientDossierFromMetadata

\* Mutation: one dossier slot, as the legacy setDossier had: the client
\* dossier that arrives takes the place of the meeting dossier.
ClientSucceeds_oneSlot ==
    \E i \in InFlight("client") : \E data \in ClientResponses(net[i]) :
        /\ clientDossier' = data
        /\ meetingDossier' = Null
        /\ isGeneratingClient' = FALSE
        /\ net' = RemoveAt(net, i)
        /\ lastOp' = OpOn("clientOk", net[i])
        /\ UNCHANGED <<loginScreen, loginPosts, authIsLoading, authChecks, report, isAuthenticated, unmounted, isLoading, error, keywordError, searchResults,
                       selectedThreads, isProcessing, processedMetadata, isAnalyzing,
                       analysisResults, isGeneratingMeeting, selectedClientName,
                       customClientName, showCustomClientInput>>

\* after the await: setClientDossier(response.data || null).
ClientSucceeds ==
    \E i \in InFlight("client") : \E data \in ClientResponses(net[i]) :
        /\ clientDossier' = data
        /\ isGeneratingClient' = FALSE
        /\ net' = RemoveAt(net, i)
        /\ lastOp' = OpOn("clientOk", net[i])
        /\ UNCHANGED <<loginScreen, loginPosts, authIsLoading, authChecks, report, isAuthenticated, unmounted, isLoading, error, keywordError, searchResults, selectedThreads,
                       isProcessing, processedMetadata, isAnalyzing, analysisResults,
                       meetingDossier, isGeneratingMeeting, selectedClientName,
                       customClientName, showCustomClientInput>>

ClientFails ==
    \E i \in InFlight("client") :
        /\ error' = ErrClient
        /\ isGeneratingClient' = FALSE
        /\ net' = RemoveAt(net, i)
        /\ lastOp' = OpOn("clientFailed", net[i])
        /\ UNCHANGED <<loginScreen, loginPosts, authIsLoading, authChecks, report, isAuthenticated, unmounted, isLoading, keywordError, searchResults, selectedThreads,
                       isProcessing, processedMetadata, isAnalyzing, analysisResults,
                       meetingDossier, clientDossier, isGeneratingMeeting,
                       selectedClientName, customClientName, showCustomClientInput>>

ChoiceOnly(op) ==
    /\ lastOp' = Op(op)
    /\ UNCHANGED <<loginScreen, loginPosts, authIsLoading, authChecks, report, isAuthenticated, unmounted, isLoading, error, keywordError, searchResults, selectedThreads,
                   isProcessing, processedMetadata, isAnalyzing, analysisResults,
                   meetingDossier, clientDossier, isGeneratingMeeting,
                   isGeneratingClient, net>>

\* The radio button of one of processedMetadata.available_client_names.
SelectClientName ==
    /\ GenerateShown
    /\ \E i \in 1..Len(processedMetadata.available_client_names) :
          selectedClientName' = processedMetadata.available_client_names[i]
    /\ showCustomClientInput' = FALSE
    /\ customClientName' = customClientName
    /\ ChoiceOnly("selectClient")

\* The radio button "Other (Custom)".
SelectCustom ==
    /\ GenerateShown
    /\ showCustomClientInput' = TRUE
    /\ selectedClientName' = custom
    /\ customClientName' = customClientName
    /\ ChoiceOnly("selectCustom")

\* The custom name input, rendered when showCustomClientInput.
TypeCustomName(D) ==
    /\ GenerateShown
    /\ showCustomClientInput
    /\ \E text \in D.customNames : customClientName' = text
    /\ UNCHANGED <<loginScreen, loginPosts, authIsLoading, authChecks, report, isAuthenticated, unmounted, selectedClientName, showCustomClientInput>>
    /\ ChoiceOnly("typeCustom")

\* Mutation: Start Over leaves the typed custom name in place.
CustomNameAfterStartOver_kept == customClientName

\* setCustomClientName('')
CustomNameAfterStartOver == <<>>

\* The onClick of the Start Over button.  The history keeps what the click
\* found: the selection, the analysis, the dossiers, the client choice.
StartOver ==
    /\ GenerateShown
    /\ ~StartOverDisabled
    /\ processedMetadata' = Null
    /\ selectedThreads' = <<>>
    /\ analysisResults' = Null
    /\ meetingDossier' = Null
    /\ clientDossier' = Null
    /\ selectedClientName' = <<>>
    /\ customClientName' = CustomNameAfterStartOver
    /\ showCustomClientInput' = FALSE
    /\ lastOp' = [op |-> "startOver", stale |-> FALSE,
                  args |-> <<selectedThreads, analysisResults, meetingDossier,
                             clientDossier, selectedClientName, customClientName>>]
    /\ UNCHANGED <<loginScreen, loginPosts, authIsLoading, authChecks, report, isAuthenticated, unmounted, isLoading, error, keywordError, searchResults, isProcessing,
                   isAnalyzing, isGeneratingMeeting, isGeneratingClient, net>>

---------------------------------------------------------------------------
(* Authentication *)

\* AuthenticatedApp is gone: the next mount starts from the useState
\* initial values, and no request of the page is awaited by it.
Discarded ==
    /\ isLoading' = FALSE
    /\ error' = ""
    /\ keywordError' = FALSE
    /\ searchResults' = <<>>
    /\ selectedThreads' = <<>>
    /\ isProcessing' = FALSE
    /\ processedMetadata' = Null
    /\ isAnalyzing' = FALSE
    /\ analysisResults' = Null
    /\ meetingDossier' = Null
    /\ clientDossier' = Null
    /\ isGeneratingMeeting' = FALSE
    /\ isGeneratingClient' = FALSE
    /\ selectedClientName' = <<>>
    /\ customClientName' = <<>>
    /\ showCustomClientInput' = FALSE
    /\ net' = <<>>

\* AuthenticatedApp is unmounted: its state is gone, and the handlers that
\* wait for a response have no component to write to.
Unmount == Discarded /\ unmounted' = unmounted \o net

\* checkAuthStatus of AuthProvider after its await: the answer sets the
\* flag, a failure clears it, and isLoading is cleared in the finally
\* block.  AppRouter mounts AuthenticatedApp in place of LoginScreen when
\* the flag is set and unmounts it when the flag is cleared.
checkAuthStatus ==
    /\ authChecks > 0
    /\ authChecks' = authChecks - 1
    /\ authIsLoading' = FALSE
    /\ \E authenticated \in BOOLEAN :
         /\ isAuthenticated' = authenticated
         /\ loginScreen' = IF authenticated THEN LoginScreenInitial ELSE loginScreen
         /\ IF isAuthenticated /\ ~authenticated
            THEN Unmount
            ELSE UNCHANGED <<isLoading, error, keywordError, searchResults,
                             selectedThreads, isProcessing, processedMetadata,
                             isAnalyzing, analysisResults, meetingDossier,
                             clientDossier, isGeneratingMeeting, isGeneratingClient,
                             selectedClientName, customClientName,
                             showCustomClientInput, net, unmounted>>
    /\ lastOp' = Op("checkAuthStatus")
    /\ UNCHANGED <<loginPosts, report>>

\* logout of AuthProvider after its await, in the try or the catch block:
\* setIsAuthenticated(false).  AppRouter renders LoginScreen in place of
\* AuthenticatedApp.
logout ==
    /\ isAuthenticated
    /\ isAuthenticated' = FALSE
    /\ Unmount
    /\ lastOp' = Op("logout")
    /\ UNCHANGED <<loginScreen, loginPosts, authIsLoading, authChecks, report>>

\* AppRouter: LoginScreen is rendered when the first check has answered
\* and the flag is not set.
LoginScreenShown == ~authIsLoading /\ ~isAuthenticated

LoginScreenOnly(op) ==
    /\ lastOp' = Op(op)
    /\ UNCHANGED <<authIsLoading, authChecks, report, isAuthenticated, unmounted, isLoading,
                   error, keywordError, searchResults, selectedThreads, isProcessing,
                   processedMetadata, isAnalyzing, analysisResults, meetingDossier,
                   clientDossier, isGeneratingMeeting, isGeneratingClient,
                   selectedClientName, customClientName, showCustomClientInput, net>>

\* <LoginButton onClick={() => setShowConsent(true)} disabled={isLoading}>
SignIn ==
    /\ LoginScreenShown
    /\ ~loginScreen.showConsent
    /\ ~loginScreen.isLoading
    /\ loginScreen' = [loginScreen EXCEPT !.showConsent = TRUE]
    /\ UNCHANGED loginPosts
    /\ LoginScreenOnly("signIn")

\* handleConsentDecline, from Cancel of ConsentScreen
handleConsentDecline ==
    /\ LoginScreenShown
    /\ loginScreen.showConsent
    /\ loginScreen' = [loginScreen EXCEPT !.showConsent = FALSE, !.error = ""]
    /\ UNCHANGED loginPosts
    /\ LoginScreenOnly("consentDecline")

\* handleConsentAccept, from Continue of ConsentScreen: handleLogin up to
\* its await, POST /api/auth/login is sent.
handleConsentAccept ==
    /\ LoginScreenShown
    /\ loginScreen.showConsent
    /\ loginScreen' = [isLoading |-> TRUE, error |-> "", showConsent |-> FALSE]
    /\ loginPosts' = loginPosts + 1
    /\ LoginScreenOnly("handleLogin")

\* handleLogin after its await: window.location.href = auth_url, whatever
\* the page shows by then.  The page is left for the consent page and
\* loaded anew when the user comes back with auth=success or auth=error;
\* what waited on the page that was left is gone.
LoginSucceeds(D) ==
    /\ loginPosts > 0
    /\ \E callback \in D.callbacks \ {""} :
         /\ authIsLoading' = (callback # "error")
         /\ authChecks' = IF callback = "success" THEN 2 ELSE 1
    /\ isAuthenticated' = FALSE
    /\ loginScreen' = LoginScreenInitial
    /\ loginPosts' = 0
    /\ Discarded
    /\ unmounted' = <<>>
    /\ lastOp' = Op("loginOk")
    /\ UNCHANGED report

\* handleLogin, the catch block: setError(err.response?.data?.error ||
\* 'Failed to initiate login. Please try again.') and setIsLoading(false)
\* of the LoginScreen that sent the request; they have no effect when that
\* LoginScreen has been unmounted since.
LoginFails ==
    /\ loginPosts > 0
    /\ loginPosts' = loginPosts - 1
    /\ \/ /\ loginScreen.isLoading
          /\ \E message \in {"err.response.data.error", ErrLogin} :
                loginScreen' = [loginScreen EXCEPT !.isLoading = FALSE, !.error = message]
       \/ /\ loginPosts > (IF loginScreen.isLoading THEN 1 ELSE 0)
          /\ UNCHANGED loginScreen
    /\ LoginScreenOnly("loginFailed")

Unmounted(handler) == {i \in 1..Len(unmounted) : unmounted[i].handler = handler}

\* handleGenerateMeetingFlow of the unmounted component between its two
\* awaits: the analysis has arrived and the dossier request is sent.
UnmountedMeetingAnalysisSucceeds(D) ==
    \E i \in Unmounted("meeting") :
      \E data \in AnalysisResponses(unmounted[i], D.analysisNames) :
        /\ unmounted[i].api = "analyze_multiple_threads"
        /\ unmounted' = Append(RemoveAt(unmounted, i),
                               [Request("meeting", "generate_meeting_dossier", <<>>, data, <<>>)
                                  EXCEPT !.stale = unmounted[i].stale])
        /\ lastOp' = OpOn("unmountedMeetingAnalysisOk", unmounted[i])
        /\ UNCHANGED <<loginScreen, loginPosts, authIsLoading, authChecks, report, isAuthenticated, isLoading, error,
                       keywordError, searchResults,
                       selectedThreads, isProcessing, processedMetadata, isAnalyzing,
                       analysisResults, meetingDossier, clientDossier, isGeneratingMeeting,
                       isGeneratingClient, selectedClientName, customClientName,
                       showCustomClientInput, net>>

\* Any other end of a handler of the unmounted component: the answer or the
\* failure arrives, the set-state calls have no effect, nothing is sent.
UnmountedResponse ==
    \E i \in 1..Len(unmounted) :
        /\ unmounted' = RemoveAt(unmounted, i)
        /\ lastOp' = OpOn("unmountedResponse", unmounted[i])
        /\ UNCHANGED <<loginScreen, loginPosts, authIsLoading, authChecks, report, isAuthenticated, isLoading, error,
                       keywordError, searchResults,
                       selectedThreads, isProcessing, processedMetadata, isAnalyzing,
                       analysisResults, meetingDossier, clientDossier, isGeneratingMeeting,
                       isGeneratingClient, selectedClientName, customClientName,
                       showCustomClientInput, net>>

---------------------------------------------------------------------------
(* The component as the user drives it *)

\* D names the values the user types and the services answer with.
Next(D) ==
    \/ Search(D)
    \/ SearchSucceeds(D)
    \/ SearchFails
    \/ KeywordChange
    \/ ThreadToggle
    \/ toggleSelectAll
    \/ ClearSelection
    \/ ProcessClick
    \/ ProcessSucceeds(D)
    \/ ProcessFails
    \/ PastSummaryClick
    \/ SummarySucceeds(D)
    \/ SummaryFails
    \/ MeetingFlowClick
    \/ MeetingAnalysisSucceeds(D)
    \/ MeetingSucceeds
    \/ MeetingFails
    \/ ClientDossierClick
    \/ ClientSucceeds
    \/ ClientFails
    \/ SelectClientName
    \/ SelectCustom
    \/ TypeCustomName(D)
    \/ StartOver
    \/ checkAuthStatus
    \/ logout
    \/ SignIn
    \/ handleConsentDecline
    \/ handleConsentAccept
    \/ LoginSucceeds(D)
    \/ LoginFails
    \/ UnmountedMeetingAnalysisSucceeds(D)
    \/ UnmountedResponse

\* The pipeline over one thread.
Pipeline ==
    [threads |-> {1},
     results |-> 1,
     keywords |-> {<<>>, <<"a">>},
     senders |-> {<<>>},
     dates |-> Dates,
     nameLists |-> {<<>>, <<Acme>>},
     analysisNames |-> {<<>>, Zed},
     customNames |-> {<<"a">>},
     callbacks |-> {"", "error"}]

Spec == Init(Pipeline) /\ [][Next(Pipeline)]_vars

\* The pipeline over MaxThread threads, for what depends on the selection.
Selection ==
    [threads |-> ThreadIds,
     results |-> MaxResults,
     keywords |-> {<<>>, <<"a">>},
     senders |-> {<<>>},
     dates |-> {1},
     nameLists |-> {<<Acme>>},
     analysisNames |-> {Zed},
     customNames |-> {<<"a">>},
     callbacks |-> {"", "error"}]

SelectionSpec == Init(Selection) /\ [][Next(Selection)]_vars

\* The search form: every keyword of up to MaxStrLen characters, and an
\* empty, a blank and a filled sender e-mail.
Form ==
    [threads |-> {1},
     results |-> 1,
     keywords |-> Texts,
     senders |-> {<<>>, <<" ">>, <<"a">>},
     dates |-> Dates,
     nameLists |-> {<<Acme>>},
     analysisNames |-> {Zed},
     customNames |-> {<<"a">>},
     callbacks |-> {"", "error"}]

FormSpec == Init(Form) /\ [][Next(Form)]_vars

\* The handlers called as functions, whatever the page renders: on top of
\* the user's steps, handleProcessThreads is called in any state.  Every
\* such call with a selection sends a request, so the calls are counted:
\* the caller stops at MaxInFlight requests in flight.  The steps of the
\* page are not held back by it.
ProcessCall == isAuthenticated /\ Len(net) < MaxInFlight /\ handleProcessThreads

Handlers ==
    [threads |-> {1},
     results |-> 1,
     keywords |-> {<<>>, <<"a">>},
     senders |-> {<<>>},
     dates |-> {1},
     nameLists |-> {<<Acme>>},
     analysisNames |-> {Zed},
     customNames |-> {<<"a">>},
     callbacks |-> {"", "error"}]

HandlerSpec == Init(Handlers) /\ [][Next(Handlers) \/ ProcessCall]_vars

\* The client choice: metadata with no, one or two client names or the
\* sentinel, an analysis with no name, a name or the sentinel in another
\* case, and custom names that are blank, padded or the sentinel.
Clients ==
    [threads |-> {1},
     results |-> 1,
     keywords |-> {<<>>, <<"a">>},
     senders |-> {<<>>},
     dates |-> {1},
     nameLists |-> {<<>>, <<Acme>>, <<Acme, Beta>>, <<Unknown_client>>},
     analysisNames |-> {<<>>, Zed, Unknown_client},
     customNames |-> {<<>>, <<" ">>, <<" ", "a">>, UnknownClient},
     callbacks |-> {"", "error"}]

ClientSpec == Init(Clients) /\ [][Next(Clients)]_vars

\* The services answer: every request in flight gets its response or its
\* failure, so the continuation of the handler that awaits it runs.
Answers(D) ==
    /\ WF_vars(SearchSucceeds(D) \/ SearchFails)
    /\ WF_vars(ProcessSucceeds(D) \/ ProcessFails)
    /\ WF_vars(SummarySucceeds(D) \/ SummaryFails)
    /\ WF_vars(MeetingAnalysisSucceeds(D) \/ MeetingSucceeds \/ MeetingFails)
    /\ WF_vars(ClientSucceeds \/ ClientFails)

Answered ==
    [threads |-> {1},
     results |-> 1,
     keywords |-> {<<>>, <<"a">>},
     senders |-> {<<>>},
     dates |-> Dates,
     nameLists |-> {<<Acme>>},
     analysisNames |-> {Zed},
     customNames |-> {<<"a">>},
     callbacks |-> {"", "error"}]

LiveSpec == Init(Answered) /\ [][Next(Answered)]_vars /\ Answers(Answered)

\* The sessions: the page is loaded plainly or on the way back from the
\* consent page, with auth=success or auth=error, so that two calls of
\* checkAuthStatus can wait for their answers at once.  The user of these
\* sessions searches, selects, processes and asks for the meeting dossier.
Sessions ==
    [threads |-> {1},
     results |-> 1,
     keywords |-> {<<"a">>},
     senders |-> {<<>>},
     dates |-> {1},
     nameLists |-> {<<Acme>>},
     analysisNames |-> {Zed},
     customNames |-> {<<"a">>},
     callbacks |-> {"", "success", "error"}]

SessionNext ==
    \/ Search(Sessions)
    \/ SearchSucceeds(Sessions)
    \/ SearchFails
    \/ ThreadToggle
    \/ ProcessClick
    \/ ProcessSucceeds(Sessions)
    \/ ProcessFails
    \/ MeetingFlowClick
    \/ MeetingAnalysisSucceeds(Sessions)
    \/ MeetingSucceeds
    \/ MeetingFails
    \/ checkAuthStatus
    \/ logout
    \/ SignIn
    \/ handleConsentDecline
    \/ handleConsentAccept
    \/ LoginSucceeds(Sessions)
    \/ LoginFails
    \/ UnmountedMeetingAnalysisSucceeds(Sessions)
    \/ UnmountedResponse

SessionSpec == Init(Sessions) /\ [][SessionNext]_vars

---------------------------------------------------------------------------
(* Markup: the text of an analysis or a dossier as it is put on the page *)

\* A text is a sequence of characters; a tag is one element of the
\* sequence, so a text that already holds markup, or the markup that a
\* conversion has produced, is a text too.  No character of a tag is one of
\* the characters the conversions look for.
MaxTextLen == 5       \* length of a text handed to a conversion
MaxPass == 2          \* a conversion is applied to a text, then to its own output

Digit == {"1"}
MarkupChars == {"*", "#", "-", " ", ".", "\n", "a", "<script>"} \cup Digit

TextsOver(chars, n) == UNION {[1..k -> chars] : k \in 0..n}

Least(S) == CHOOSE x \in S : \A y \in S : x <= y
Greatest(S) == CHOOSE x \in S : \A y \in S : x >= y

Drop(s, n) == SubSeq(s, n + 1, Len(s))
StartsWith(s, p) == Len(s) >= Len(p) /\ SubSeq(s, 1, Len(p)) = p

\* String.prototype.split on a separator of one element
RECURSIVE Split(_, _)
Split(s, sep) ==
    IF ~Includes(s, sep) THEN <<s>>
    ELSE LET i == Least({k \in 1..Len(s) : s[k] = sep})
         IN <<SubSeq(s, 1, i - 1)>> \o Split(Drop(s, i), sep)

RECURSIVE Join(_, _)
Join(parts, sep) ==
    IF Len(parts) = 1 THEN parts[1]
    ELSE parts[1] \o <<sep>> \o Join(Tail(parts), sep)

\* /\*\*(.*?)\*\*/g and /\*(.*?)\*/g: the delimiter is n stars, the lazy
\* group ends at the nearest closing delimiter, and . stays on the line.
Stars(n) == [i \in 1..n |-> "*"]

Closings(s, n) ==
    {j \in (n + 1)..(Len(s) - n + 1) :
        /\ SubSeq(s, j, j + n - 1) = Stars(n)
        /\ \A k \in (n + 1)..(j - 1) : s[k] # "\n"}

RECURSIVE Emphasis(_, _, _, _)
Emphasis(s, n, open, close) ==
    IF s = <<>> THEN <<>>
    ELSE IF StartsWith(s, Stars(n)) /\ Closings(s, n) # {}
         THEN LET j == Least(Closings(s, n))
              IN <<open>> \o SubSeq(s, n + 1, j - 1) \o <<close>>
                     \o Emphasis(Drop(s, j + n - 1), n, open, close)
         ELSE <<Head(s)>> \o Emphasis(Tail(s), n, open, close)

Bold(s) == Emphasis(s, 2, "<strong>", "</strong>")
Italic(s) == Emphasis(s, 1, "<em>", "</em>")

\* /^prefix(.*$)/gim: every line that starts with the prefix
Prefixed(line, prefix, open, close) ==
    IF StartsWith(line, prefix)
    THEN <<open>> \o Drop(line, Len(prefix)) \o <<close>>
    ELSE line

EachLine(s, prefix, open, close) ==
    LET lines == Split(s, "\n")
    IN Join([i \in 1..Len(lines) |-> Prefixed(lines[i], prefix, open, close)], "\n")

Headers(s) ==
    EachLine(EachLine(EachLine(s, <<"#", "#", "#", " ">>, "<h3>", "</h3>"),
                      <<"#", "#", " ">>, "<h2>", "</h2>"),
             <<"#", " ">>, "<h1>", "</h1>")

Bullets(s) == EachLine(s, <<"-", " ">>, "<li>", "</li>")

\* /^\d+\. (.*$)/gim
RECURSIVE LeadingDigits(_)
LeadingDigits(line) ==
    IF line # <<>> /\ Head(line) \in Digit THEN 1 + LeadingDigits(Tail(line)) ELSE 0

NumberedLine(line) ==
    LET d == LeadingDigits(line)
    IN IF d > 0 /\ StartsWith(Drop(line, d), <<".", " ">>)
       THEN <<"<li>">> \o Drop(line, d + 2) \o <<"</li>">>
       ELSE line

Numbered(s) ==
    LET lines == Split(s, "\n")
    IN Join([i \in 1..Len(lines) |-> NumberedLine(lines[i])], "\n")

\* /\n/g
LineBreaks(s) == [i \in 1..Len(s) |-> IF s[i] = "\n" THEN "<br>" ELSE s[i]]

\* /(<li>.*<\/li>)/g, where the greedy .* meets no line end (parseOutput
\* has replaced them, ClientDossierReport sets the s flag): the one match
\* runs from the first <li> to the last </li>.
ListMatch(s) ==
    LET opens == {i \in 1..Len(s) : s[i] = "<li>"}
        closes == {j \in 1..Len(s) : s[j] = "</li>"}
    IN IF opens # {} /\ closes # {} /\ Least(opens) < Greatest(closes)
       THEN <<Least(opens), Greatest(closes)>>
       ELSE <<>>

WrapList(s) ==
    LET m == ListMatch(s)
    IN IF m = <<>> THEN s
       ELSE SubSeq(s, 1, m[1] - 1) \o <<"<ul>">> \o SubSeq(s, m[1], m[2]) \o <<"</ul>">>
                \o Drop(s, m[2])

\* /<br><br><br>/g
RECURSIVE CollapseBreaks(_)
CollapseBreaks(s) ==
    IF s = <<>> THEN <<>>
    ELSE IF StartsWith(s, <<"<br>", "<br>", "<br>">>)
         THEN <<"<br>", "<br>">> \o CollapseBreaks(Drop(s, 3))
         ELSE <<Head(s)>> \o CollapseBreaks(Tail(s))

parseCrewAIOutput(text) ==
    IF text = <<>> THEN <<>>
    ELSE CollapseBreaks(WrapList(LineBreaks(Numbered(Bullets(Headers(Italic(Bold(text))))))))

formatAnalysisResults(analysis) ==
    IF analysis = <<>> THEN <<>>
    ELSE IF Includes(analysis, "<strong>") \/ Includes(analysis, "<em>") THEN analysis
    ELSE parseCrewAIOutput(analysis)

\* The callback of the list replacement in processMarkdownContent:
\* match.split('</li>').filter(item => item.trim()).map(item => item + '</li>')
Blank(item) == \A k \in 1..Len(item) : item[k] \in {" ", "\n"}

RECURSIVE Items(_)
Items(parts) ==
    IF parts = <<>> THEN <<>>
    ELSE (IF Blank(Head(parts)) THEN <<>> ELSE Head(parts) \o <<"</li>">>)
             \o Items(Tail(parts))

WrapItems(s) ==
    LET m == ListMatch(s)
    IN IF m = <<>> THEN s
       ELSE SubSeq(s, 1, m[1] - 1) \o <<"<ul>">>
                \o Items(Split(SubSeq(s, m[1], m[2]), "</li>")) \o <<"</ul>">>
                \o Drop(s, m[2])

processMarkdownContent(content) ==
    LineBreaks(WrapItems(Bullets(Italic(Bold(Headers(content))))))

\* A text arrives; nothing has been converted.
Received(text) == [fn |-> "none", text |-> text, html |-> <<>>, pass |-> 0]

\* The next application of a conversion: to the text that arrived, then to
\* the markup the same conversion produced.
Applies(fn) == report.fn \in {"none", fn} /\ report.pass < MaxPass

Argument == IF report.pass = 0 THEN report.text ELSE report.html

Applied(fn, html) ==
    [fn |-> fn, text |-> Argument, html |-> html, pass |-> report.pass + 1]

ParseCrewAIOutput ==
    /\ Applies("parseCrewAIOutput")
    /\ report' = Applied("parseCrewAIOutput", parseCrewAIOutput(Argument))
    /\ UNCHANGED component

FormatAnalysisResults ==
    /\ Applies("formatAnalysisResults")
    /\ report' = Applied("formatAnalysisResults", formatAnalysisResults(Argument))
    /\ UNCHANGED component

\* ClientDossierReport: the converted dossier is the innerHTML of the report
ProcessMarkdownContent ==
    /\ Applies("processMarkdownContent")
    /\ report' = Applied("processMarkdownContent", processMarkdownContent(Argument))
    /\ UNCHANGED component

\* AnalysisReport without a structured analysis: the raw analysis is the
\* innerHTML of the report as it arrived.
RawAnalysis ==
    /\ report.fn = "none"
    /\ report' = Applied("rawAnalysis", Argument)
    /\ UNCHANGED component

\* MeetingFlowReport: the meeting flow is split into sections, which React
\* renders as text; a meeting flow with no section and no date is the
\* innerHTML of the report, its line ends replaced.

\* String.prototype.includes
Contains(s, sub) == \E i \in 0..(Len(s) - Len(sub)) : SubSeq(s, i + 1, i + Len(sub)) = sub

\* text.split('\n').filter(line => line.trim()), each line trimmed
TrimmedLines(text) ==
    LET lines == SelectSeq(Split(text, "\n"), LAMBDA line : Trim(line) # <<>>)
    IN [i \in 1..Len(lines) |-> Trim(lines[i])]

\* \d{4}-\d{2}-\d{2}
IsoDateAt(s, i) ==
    /\ i + 9 <= Len(s)
    /\ \A k \in {0, 1, 2, 3, 5, 6, 8, 9} : s[i + k] \in Digit
    /\ s[i + 4] = "-"
    /\ s[i + 7] = "-"

\* am|pm|AM|PM under the i flag
AmPmAt(s, i) ==
    /\ i + 1 <= Len(s)
    /\ s[i] \in {"a", "A", "p", "P"}
    /\ s[i + 1] \in {"m", "M"}

\* dateTimePatterns on a line, <<>> for no match.  The characters of the
\* texts spell none of the words "meeting", "date", "time", "when",
\* "schedule", no day of the week, and hold neither the colon nor the
\* slash, so that the first three patterns match nothing; of the fourth
\* pattern, /^-\s*(.*?(...).*?)$/i, the date yyyy-mm-dd and am, pm are
\* looked for, and its group is the line after the dash.
DateTimeIn(line) ==
    LET rest == TrimLeft(Drop(line, 1))
    IN IF /\ StartsWith(line, <<"-">>)
          /\ \E i \in 1..Len(rest) : IsoDateAt(rest, i) \/ AmPmAt(rest, i)
       THEN Trim(rest)
       ELSE <<>>

\* First pass: the first line with a date
RECURSIVE meetingDateTime(_)
meetingDateTime(lines) ==
    IF lines = <<>> THEN <<>>
    ELSE IF DateTimeIn(Head(lines)) # <<>> THEN DateTimeIn(Head(lines))
         ELSE meetingDateTime(Tail(lines))

\* the lower-case letters among the characters of the model: /^[a-z]/
LowerLetters == {"a", "b", "c", "u", "z"}

ReportTitleText ==
    <<"M", "e", "e", "t", "i", "n", "g", " ", "F", "l", "o", "w", " ",
      "D", "o", "s", "s", "i", "e", "r">>

\* a section header: no leading dash, no 1. 2. 3., not a continuation
IsSectionHeader(line) ==
    /\ ~StartsWith(line, <<"-">>)
    /\ ~StartsWith(line, <<"1", ".">>)
    /\ ~StartsWith(line, <<"2", ".">>)
    /\ ~StartsWith(line, <<"3", ".">>)
    /\ Len(line) > 0
    /\ Head(line) \notin LowerLetters
    /\ line # ReportTitleText

\* sections[key] = value: a key that is there keeps its place
PutSection(sections, key, value) ==
    IF \E i \in 1..Len(sections) : sections[i].title = key
    THEN [i \in 1..Len(sections) |->
            IF sections[i].title = key THEN [title |-> key, content |-> value]
            ELSE sections[i]]
    ELSE Append(sections, [title |-> key, content |-> value])

SaveSection(sections, currentSection, currentContent) ==
    IF currentSection # <<>> /\ currentContent # <<>>
    THEN PutSection(sections, currentSection, currentContent)
    ELSE sections

\* Second pass; <<>> stands for the null of currentSection and of
\* meetingDateTime.
RECURSIVE ParseSections(_, _, _, _, _)
ParseSections(lines, dateTime, sections, currentSection, currentContent) ==
    IF lines = <<>> THEN SaveSection(sections, currentSection, currentContent)
    ELSE LET line == Head(lines)
         IN IF dateTime # <<>> /\ Contains(ToLowerCase(line), ToLowerCase(dateTime))
            THEN ParseSections(Tail(lines), dateTime, sections, currentSection,
                               currentContent)
            ELSE IF IsSectionHeader(line)
            THEN ParseSections(Tail(lines), dateTime,
                               SaveSection(sections, currentSection, currentContent),
                               line, <<>>)
            ELSE IF currentSection # <<>>
            THEN ParseSections(Tail(lines), dateTime, sections, currentSection,
                               Append(currentContent, line))
            ELSE ParseSections(Tail(lines), dateTime, sections, currentSection,
                               currentContent)

\* Object.entries: the keys that are array indices come first, in
\* ascending order, then the other keys in the order they were set.
DigitValue(c) ==
    CASE c = "0" -> 0 [] c = "1" -> 1 [] c = "2" -> 2 [] c = "3" -> 3 [] c = "4" -> 4
      [] c = "5" -> 5 [] c = "6" -> 6 [] c = "7" -> 7 [] c = "8" -> 8 [] c = "9" -> 9

RECURSIVE LexLess(_, _)
LexLess(a, b) ==
    /\ a # <<>>
    /\ \/ DigitValue(Head(a)) < DigitValue(Head(b))
       \/ Head(a) = Head(b) /\ LexLess(Tail(a), Tail(b))

\* numeric order of two keys written in digits without a leading zero
KeyLess(a, b) == Len(a) < Len(b) \/ (Len(a) = Len(b) /\ LexLess(a, b))

\* an array index: a whole number below 2^32 - 1 as it is written
IsIndexKey(key) ==
    /\ key # <<>>
    /\ \A i \in 1..Len(key) : key[i] \in Digit
    /\ Len(key) = 1 \/ key[1] # "0"
    /\ KeyLess(key, <<"4", "2", "9", "4", "9", "6", "7", "2", "9", "5">>)

Entries(sections) ==
    SortSeq(SelectSeq(sections, LAMBDA e : IsIndexKey(e.title)),
            LAMBDA a, b : KeyLess(a.title, b.title))
      \o SelectSeq(sections, LAMBDA e : ~IsIndexKey(e.title))

\* renderContent: item.replace(/^[-...]\s*/, ''), then the number of an
\* agenda item /^\d+\.\s/ is taken off
CleanItem(item) ==
    LET cleanItem == IF StartsWith(item, <<"-">>) THEN TrimLeft(Drop(item, 1)) ELSE item
        d == LeadingDigits(cleanItem)
    IN IF d > 0 /\ StartsWith(Drop(cleanItem, d), <<".", " ">>)
       THEN Drop(cleanItem, d + 2)
       ELSE cleanItem

renderContent(content) == [i \in 1..Len(content) |-> CleanItem(content[i])]

Agenda == <<"a", "g", "e", "n", "d", "a">>

\* What the component renders: nothing for an empty meeting flow;
\* otherwise the date, the sections with their items as text (an ordered
\* list under a title that holds "agenda"), and the innerHTML of the
\* fallback, <<>> when the fallback is not rendered.
MeetingFlowReport(meeting_flow) ==
    IF meeting_flow = <<>>
    THEN [rendered |-> FALSE, meetingDateTime |-> <<>>, sections |-> <<>>,
          innerHTML |-> <<>>]
    ELSE LET lines == TrimmedLines(meeting_flow)
             dateTime == meetingDateTime(lines)
             sections == Entries(ParseSections(lines, dateTime, <<>>, <<>>, <<>>))
         IN [rendered |-> TRUE,
             meetingDateTime |-> dateTime,
             sections |-> [i \in 1..Len(sections) |->
                             [title |-> sections[i].title,
                              ordered |-> Contains(ToLowerCase(sections[i].title), Agenda),
                              items |-> renderContent(sections[i].content)]],
             innerHTML |-> IF sections = <<>> /\ dateTime = <<>>
                           THEN LineBreaks(meeting_flow)
                           ELSE <<>>]

\* MeetingFlowReport rendered with the meeting flow that arrived
RenderMeetingFlowReport ==
    /\ report.fn = "none"
    /\ LET shown == MeetingFlowReport(Argument)
       IN report' = [fn |-> "MeetingFlowReport", text |-> Argument,
                     html |-> shown.innerHTML, pass |-> report.pass + 1,
                     rendered |-> shown.rendered,
                     meetingDateTime |-> shown.meetingDateTime,
                     sections |-> shown.sections]
    /\ UNCHANGED component

\* The dossiers of the earlier App: meetingDossier.meeting_flow,
\* productDossier.product_dossier and clientDossier.client_dossier are the
\* innerHTML of their containers, x?.replace(/\n/g, '<br>') || ''.
DossierContainer ==
    /\ report.fn = "none"
    /\ \E field \in {"meeting_flow", "product_dossier", "client_dossier"} :
          report' = Applied(field, LineBreaks(Argument))
    /\ UNCHANGED component

MarkupInit == InitialState /\ Loaded("") /\ \E text \in TextsOver(MarkupChars, MaxTextLen) : report = Received(text)

MarkupNext ==
    \/ ParseCrewAIOutput
    \/ FormatAnalysisResults
    \/ ProcessMarkdownContent
    \/ RawAnalysis
    \/ RenderMeetingFlowReport
    \/ DossierContainer

MarkupSpec == MarkupInit /\ [][MarkupNext]_vars

---------------------------------------------------------------------------
(* AnalysisReport: what is shown of a structured analysis *)

\* The props are JSON of the backend.  A value that may be missing is Null
\* or a record that says what it is: an array, a string of words, an
\* object with its entries in the order of Object.values.  A missing
\* subject or display name is the empty string and a missing count is 0:
\* the code reads them with || and takes the same branch for both.
MaxWords == 3         \* words of a summary bullet

Arr(items) == [array |-> items]
Str(words) == [words |-> words]
Obj(entries) == [entries |-> entries]

IsArray(x) == "array" \in DOMAIN x          \* Array.isArray
IsString(x) == "words" \in DOMAIN x
NonEmptyArray(x) == IsArray(x) /\ Len(x.array) > 0

Returned(value) == [returned |-> value]
TypeError == [thrown |-> "TypeError"]
Threw(result) == "thrown" \in DOMAIN result

\* template literal ${n}, for the counts of the threads below
Count(n) == <<"0", "1", "2", "3">>[n + 1]

\* String.prototype.toLowerCase on the words of the bullets
LowerWord(w) ==
    CASE w = "Unknown" -> "unknown"
      [] w = "Sender" -> "sender"
      [] w = "A@X.COM" -> "a@x.com"
      [] OTHER -> w

\* the words /\b[A-Za-z0-9._%+-]+@[A-Za-z0-9.-]+\.[A-Z|a-z]{2,}\b/g matches
EmailWords == {"a@x.com", "A@X.COM", "z@x.com"}

getThreadSummary(props) ==
    LET metadata == IF props.combinedMetadata # Null THEN props.combinedMetadata
                    ELSE props.threadMetadata
    IN IF metadata = Null THEN Null
       ELSE [participants |-> IF metadata.participants = Null THEN <<>>
                              ELSE metadata.participants.entries]

\* A pattern is matched word by word, without regard to case: one set of
\* words for each word of the pattern.
unknownPatterns ==
    << <<{"unknown"}, {"sender"}>>,
       <<{"unnamed"}, {"sender"}>>,
       <<{"unidentified"}, {"sender"}>>,
       <<{"anonymous"}, {"sender"}>>,
       <<{"sender"}>> >>

genericPatterns ==
    << <<{"the", "a", "an"}, {"sender", "person", "user", "participant"}>>,
       <<{"some", "one", "a"}, {"sender", "person", "user", "participant"}>>,
       <<{"email", "message"}, {"sender", "from", "author"}>> >>

MatchesAt(s, pattern) ==
    /\ Len(pattern) <= Len(s)
    /\ \A k \in 1..Len(pattern) : LowerWord(s[k]) \in pattern[k]

Found(s, pattern) == \E i \in 0..Len(s) : MatchesAt(Drop(s, i), pattern)

\* updatedSummary.replace(pattern, name), pattern with the g flag
RECURSIVE Replace(_, _, _)
Replace(s, pattern, name) ==
    IF s = <<>> THEN <<>>
    ELSE IF MatchesAt(s, pattern)
         THEN <<name>> \o Replace(Drop(s, Len(pattern)), pattern, name)
         ELSE <<Head(s)>> \o Replace(Tail(s), pattern, name)

emailsInSummary(s) == SelectSeq(s, LAMBDA w : w \in EmailWords)

\* threadSummary.participants[key]
Participant(participants, key) ==
    IF \E i \in 1..Len(participants) : participants[i].email = key
    THEN participants[CHOOSE i \in 1..Len(participants) : participants[i].email = key]
    ELSE Null

\* emailsInSummary.forEach
RECURSIVE ByEmails(_, _, _, _)
ByEmails(s, emails, pattern, participants) ==
    IF emails = <<>> THEN s
    ELSE LET participant == Participant(participants, LowerWord(Head(emails)))
         IN ByEmails(IF participant # Null /\ participant.display_name # ""
                     THEN Replace(s, pattern, participant.display_name)
                     ELSE s,
                     Tail(emails), pattern, participants)

ByFirstParticipant(s, pattern, participants) ==
    IF Len(participants) > 0 /\ participants[1].display_name # ""
    THEN Replace(s, pattern, participants[1].display_name)
    ELSE s

\* unknownPatterns.forEach; the e-mails are those of the summary as given
RECURSIVE ReplaceUnknown(_, _, _, _)
ReplaceUnknown(s, patterns, emails, participants) ==
    IF patterns = <<>> THEN s
    ELSE LET pattern == Head(patterns)
             updated == IF ~Found(s, pattern) THEN s
                        ELSE IF Len(emails) > 0
                             THEN ByEmails(s, emails, pattern, participants)
                             ELSE ByFirstParticipant(s, pattern, participants)
         IN ReplaceUnknown(updated, Tail(patterns), emails, participants)

\* genericPatterns.forEach
RECURSIVE ReplaceGeneric(_, _, _)
ReplaceGeneric(s, patterns, participants) ==
    IF patterns = <<>> THEN s
    ELSE ReplaceGeneric(IF Found(s, Head(patterns))
                        THEN ByFirstParticipant(s, Head(patterns), participants)
                        ELSE s,
                        Tail(patterns), participants)

\* the function mapped over allSummaries
updatedSummary(summary, participants) ==
    ReplaceGeneric(ReplaceUnknown(summary, unknownPatterns, emailsInSummary(summary),
                                  participants),
                   genericPatterns, participants)

\* groups.forEach(group => ... allSummaries.push(...group.email_summaries))
RECURSIVE GroupSummaries(_)
GroupSummaries(groups) ==
    IF groups = <<>> THEN <<>>
    ELSE (IF IsArray(Head(groups).email_summaries)
          THEN Head(groups).email_summaries.array ELSE <<>>)
             \o GroupSummaries(Tail(groups))

\* reading a property of null throws
FromGroups(groups) ==
    IF \E i \in 1..Len(groups) : groups[i] = Null THEN TypeError
    ELSE Returned(GroupSummaries(groups))

allSummaries(structuredAnalysis, relevancyAnalysis) ==
    IF relevancyAnalysis # Null /\ NonEmptyArray(relevancyAnalysis.relevant_groups)
    THEN FromGroups(relevancyAnalysis.relevant_groups.array)
    ELSE IF NonEmptyArray(structuredAnalysis.relevant_groups)
    THEN FromGroups(structuredAnalysis.relevant_groups.array)
    ELSE IF NonEmptyArray(structuredAnalysis.groups)
    THEN FromGroups(structuredAnalysis.groups.array)
    ELSE IF IsArray(structuredAnalysis.email_summaries)
    THEN Returned(structuredAnalysis.email_summaries.array)
    ELSE Returned(<<>>)

getConsolidatedSummaries(props) ==
    IF props.structuredAnalysis = Null THEN Returned(<<>>)
    ELSE LET all == allSummaries(props.structuredAnalysis, props.relevancyAnalysis)
             threadSummary == getThreadSummary(props)
         IN IF Threw(all) THEN TypeError
            ELSE IF Len(all.returned) = 0 THEN Returned(<<>>)
            ELSE IF threadSummary = Null THEN all
            \* summary.match of a value that is no string
            ELSE IF \E i \in 1..Len(all.returned) : ~IsString(all.returned[i])
                 THEN TypeError
            ELSE Returned([i \in 1..Len(all.returned) |->
                             Str(updatedSummary(all.returned[i].words,
                                                threadSummary.participants))])

getRelevantGroups(props) ==
    IF props.relevancyAnalysis # Null /\ IsArray(props.relevancyAnalysis.relevant_groups)
    THEN Returned(props.relevancyAnalysis.relevant_groups.array)
    ELSE IF props.structuredAnalysis = Null
            \/ ~IsArray(props.structuredAnalysis.relevant_groups)
    THEN Returned(<<>>)
    ELSE Returned(props.structuredAnalysis.relevant_groups.array)

\* rawThread.subject || `Thread ${index + 1}`; index counts from 1 here
SubjectOf(thread, index) ==
    IF thread.subject # "" THEN <<thread.subject>> ELSE <<"Thread", Count(index)>>

FirstThree(s) == SubSeq(s, 1, IF Len(s) < 3 THEN Len(s) ELSE 3)

\* the entry made of a thread of relevancyAnalysis.irrelevant_threads; no
\* snippet of the model is longer than the 100 characters that are kept
FromRawThread(rawThread, index) ==
    LET threadSubject == SubjectOf(rawThread, index)
        messageCount == rawThread.message_count
        participants == IF rawThread.participants = Null THEN <<>>
                        ELSE rawThread.participants.entries
        participantNames == [i \in 1..Len(participants) |->
                               IF participants[i].display_name # ""
                               THEN participants[i].display_name
                               ELSE participants[i].email]
        snippets == IF rawThread.content_snippets = Null THEN <<>>
                    ELSE FirstThree(rawThread.content_snippets.array)
    IN [thread_subject |-> Str(threadSubject),
        summary |-> Str(<<"This", "thread", "contains", Count(messageCount),
                          "messages", "discussing">> \o threadSubject
                        \o <<"The", "conversation", "involves",
                             Count(Len(participants)), "participants:">>
                        \o participantNames),
        reason_for_irrelevancy |->
            Str(<<"This", "thread", "focuses", "on">> \o threadSubject),
        email_summaries |->
            IF rawThread.content_snippets # Null
            THEN Arr([i \in 1..Len(snippets) |-> Str(<<"Email", Count(i), snippets[i]>>)])
            ELSE Arr(<<Str(<<"Initial", "contact", "regarding">> \o threadSubject),
                       Str(<<"Follow-up", "discussion", "about">> \o threadSubject),
                       Str(<<"Final", "communication", "on">> \o threadSubject)>>),
        discussion_agenda |->
            Str(<<"Discussion", "focused", "on">> \o threadSubject
                \o <<"with", Count(messageCount), "messages", "exchanged">>)]

\* the entry made of a thread of combinedMetadata.threads
FromMetadataThread(thread, index) ==
    LET threadSubject == SubjectOf(thread, index)
    IN [thread_subject |-> Str(threadSubject),
        summary |-> Str(<<"This", "thread", "contains", Count(thread.message_count),
                          "messages", "discussing">> \o threadSubject),
        reason_for_irrelevancy |->
            Str(<<"Thread", "was", "analyzed", "separately">>),
        email_summaries |->
            Arr(<<Str(<<"Initial", "contact", "regarding">> \o threadSubject),
                  Str(<<"Follow-up", "discussion", "about">> \o threadSubject),
                  Str(<<"Final", "communication", "on">> \o threadSubject)>>),
        discussion_agenda |-> Str(<<"Discussion", "focused", "on">> \o threadSubject)]

getIrrelevantThreads(props) ==
    LET structuredAnalysis == props.structuredAnalysis
        relevancyAnalysis == props.relevancyAnalysis
        combinedMetadata == props.combinedMetadata
        irrelevantThreads ==
            IF structuredAnalysis # Null /\ IsArray(structuredAnalysis.irrelevant_threads)
            THEN structuredAnalysis.irrelevant_threads.array
            ELSE IF relevancyAnalysis # Null /\ IsArray(relevancyAnalysis.irrelevant_threads)
            THEN [i \in 1..Len(relevancyAnalysis.irrelevant_threads.array) |->
                    FromRawThread(relevancyAnalysis.irrelevant_threads.array[i], i)]
            ELSE <<>>
    IN IF Len(irrelevantThreads) = 0 /\ combinedMetadata # Null
          /\ combinedMetadata.threads # Null
       THEN Returned([i \in 1..Len(combinedMetadata.threads.array) |->
                        FromMetadataThread(combinedMetadata.threads.array[i], i)])
       ELSE Returned(irrelevantThreads)

\* AnalysisReport is called with its props; the three lists are computed
\* by every render (945-947), each from the props alone.
Props(structuredAnalysis, relevancyAnalysis, threadMetadata, combinedMetadata) ==
    [structuredAnalysis |-> structuredAnalysis, relevancyAnalysis |-> relevancyAnalysis,
     threadMetadata |-> threadMetadata, combinedMetadata |-> combinedMetadata]

Rendering(props) == [fn |-> "props", props |-> props, result |-> Null]

GetConsolidatedSummaries ==
    /\ report.fn = "props"
    /\ report' = [report EXCEPT !.fn = "getConsolidatedSummaries",
                                !.result = getConsolidatedSummaries(report.props)]
    /\ UNCHANGED component

GetRelevantGroups ==
    /\ report.fn = "props"
    /\ report' = [report EXCEPT !.fn = "getRelevantGroups",
                                !.result = getRelevantGroups(report.props)]
    /\ UNCHANGED component

GetIrrelevantThreads ==
    /\ report.fn = "props"
    /\ report' = [report EXCEPT !.fn = "getIrrelevantThreads",
                                !.result = getIrrelevantThreads(report.props)]
    /\ UNCHANGED component

ReportInit(P) == InitialState /\ Loaded("") /\ \E props \in P : report = Rendering(props)

ReportNext ==
    \/ GetConsolidatedSummaries
    \/ GetRelevantGroups
    \/ GetIrrelevantThreads

\* Participants of the threads
Alice == [email |-> "a@x.com", display_name |-> "Alice"]
Bob == [email |-> "b@x.com", display_name |-> "Bob"]
Unnamed == [email |-> "a@x.com", display_name |-> ""]

Metadata(participants, threads) == [participants |-> participants, threads |-> threads]
NoStructure ==
    [relevant_groups |-> Null, groups |-> Null, email_summaries |-> Null,
     irrelevant_threads |-> Null]
NoRelevancy == [relevant_groups |-> Null, irrelevant_threads |-> Null]

\* Where the summaries come from: every list is missing, empty, or holds
\* groups with a summary named after the list; a group may lack its
\* summaries or be null, a summary may be null.
Group(word) == [email_summaries |-> Arr(<<Str(<<word>>)>>)]

GroupLists(word) ==
    {Null, Arr(<<>>), Arr(<<Group(word)>>), Arr(<<Group(word), Group("more")>>),
     Arr(<<[email_summaries |-> Null]>>), Arr(<<Null>>),
     Arr(<<[email_summaries |-> Arr(<<Null>>)]>>)}

SummaryProps ==
    {Props(sa, ra, Null, cm) :
        sa \in {Null} \cup
               {[NoStructure EXCEPT !.relevant_groups = rg, !.groups = g,
                                    !.email_summaries = es] :
                    rg \in GroupLists("relevant"), g \in GroupLists("group"),
                    es \in {Null, Arr(<<>>), Arr(<<Str(<<"legacy">>)>>)}},
        ra \in {Null} \cup {[NoRelevancy EXCEPT !.relevant_groups = rg] :
                               rg \in GroupLists("relevancy")},
        cm \in {Null, Metadata(Obj(<<Alice>>), Null)}}

SummarySpec == ReportInit(SummaryProps) /\ [][ReportNext]_vars

\* The bullets of one analysis in the legacy shape, and who took part
BulletWords == {"Unknown", "Sender", "sender", "the", "proposed"} \cup EmailWords

BulletProps ==
    {Props([NoStructure EXCEPT !.email_summaries = Arr(<<Str(bullet)>>)], Null, tm, cm) :
        bullet \in TextsOver(BulletWords, MaxWords) \ {<<>>},
        tm \in {Null, Metadata(Obj(<<Bob>>), Null)},
        cm \in {Null, Metadata(Null, Null), Metadata(Obj(<<>>), Null),
                Metadata(Obj(<<Alice>>), Null), Metadata(Obj(<<Bob, Alice>>), Null),
                Metadata(Obj(<<Unnamed, Bob>>), Null)}}

BulletSpec == ReportInit(BulletProps) /\ [][ReportNext]_vars

\* Standalone threads: as the analysis gives them, with or without a
\* summary, or as raw threads of the relevancy analysis or of the metadata
Renewal ==
    [subject |-> "Renewal", message_count |-> 3, participants |-> Obj(<<>>),
     content_snippets |-> Null]
RawThreads ==
    {Renewal,
     [Renewal EXCEPT !.participants = Null],
     [Renewal EXCEPT !.subject = "", !.message_count = 0,
                     !.participants = Obj(<<Alice, Unnamed>>)],
     [Renewal EXCEPT !.content_snippets = Arr(<<"hello">>)]}

ThreadLists(threads) ==
    {Null, Arr(<<>>)} \cup {Arr(<<t>>) : t \in threads}
        \cup {Arr(<<t, u>>) : t \in threads, u \in threads}

Analysed(summary) ==
    [thread_subject |-> Str(<<"Renewal">>), summary |-> summary,
     reason_for_irrelevancy |-> Null, email_summaries |-> Null,
     discussion_agenda |-> Null]
AnalysedThreads == {Analysed(Str(<<"They", "renewed">>)), Analysed(Null), Analysed(Str(<<>>))}

StandaloneProps ==
    {Props(sa, ra, Null, cm) :
        sa \in {Null} \cup {[NoStructure EXCEPT !.irrelevant_threads = it] :
                               it \in ThreadLists(AnalysedThreads)},
        ra \in {Null} \cup {[NoRelevancy EXCEPT !.irrelevant_threads = it] :
                               it \in ThreadLists(RawThreads)},
        cm \in {Null} \cup {Metadata(Null, th) :
                               th \in {Null, Arr(<<Renewal>>),
                                       Arr(<<[Renewal EXCEPT !.subject = ""]>>)}}}

StandaloneSpec == ReportInit(StandaloneProps) /\ [][ReportNext]_vars

---------------------------------------------------------------------------
(* Properties *)

Handlers5 == {"search", "process", "summary", "meeting", "client"}

AnalysisRequests(reqs) == {i \in 1..Len(reqs) : reqs[i].api = "analyze_multiple_threads"}

Artifacts == <<processedMetadata, analysisResults, meetingDossier, clientDossier>>

\* The inputs of the handleSearch call recorded in the history break the
\* rule of the search form.
InvalidCriteria(args) ==
    \/ Trim(args[1]) = <<>> /\ Trim(args[2]) = <<>>
    \/ args[3] > args[4]

\* C1: a search whose keyword and sender e-mail are both blank after
\* trimming, or whose start date is after its end date, shows a validation
\* error, sends no request and leaves the searching flag clear.
C1_InvalidSearchRejected ==
    [][(lastOp'.op = "handleSearch" /\ InvalidCriteria(lastOp'.args))
         => /\ error' \in {ErrKeywordRequired, ErrDateOrder}
            /\ net' = net
            /\ ~isLoading']_vars

\* C1, the case: a keyword of one blank was rejected while the process
\* request of the previous search was still in flight.
C1_Witness ==
    /\ lastOp.op = "handleSearch"
    /\ lastOp.args[1] = <<" ">>
    /\ Trim(lastOp.args[2]) = <<>>
    /\ error = ErrKeywordRequired
    /\ InFlight("process") # {}

\* C2: when a search succeeds the thread list is the response and the
\* selection, the metadata, the analysis and the dossiers are absent.
C2_SearchResetsDownstream ==
    lastOp.op = "searchOk"
        => /\ searchResults = lastOp.args[1]
           /\ selectedThreads = <<>>
           /\ processedMetadata = Null
           /\ analysisResults = Null
           /\ meetingDossier = Null
           /\ clientDossier = Null

\* C3: the answer to a request of a handler called before the latest search
\* began writes neither metadata, analysis nor a dossier.
C3_StaleResponseDiscarded ==
    [][lastOp'.stale => Artifacts' = Artifacts]_vars

\* C4: no handler has two requests in flight.
C4_OneInFlightPerStage ==
    \A h \in Handlers5 : Cardinality(InFlight(h)) <= 1

\* C4, the case: a search, a process and a generation are in flight at
\* once, so that every button that is rendered is disabled.
C4_Witness ==
    /\ InFlight("search") # {}
    /\ InFlight("process") # {}
    /\ InFlight("meeting") # {}
    /\ isLoading /\ isProcessing /\ isGeneratingMeeting

\* C5 as claimed: with the meeting dossier in flight and no client dossier
\* in flight, the client dossier can be started.
C5_OtherKindNotBlocked ==
    (GenerateShown /\ isGeneratingMeeting /\ ~isGeneratingClient) => ~ClientDossierDisabled

\* C5 as amended: the summary, the meeting dossier and the client dossier
\* have at most one request in flight between them.
C5_OneGenerationAtATime ==
    Cardinality(InFlight("summary") \cup InFlight("meeting") \cup InFlight("client")) <= 1

\* C5, the case: the meeting dossier is in flight while the three buttons
\* are rendered and a client name would resolve.
C5_Witness ==
    /\ GenerateShown
    /\ InFlight("meeting") # {}
    /\ ~NoClientName(ResolveClientName)
    /\ InFlight("client") = {}

\* C6: a step that sends an analysis or dossier request is taken with the
\* metadata present.
C6_RequestsNeedMetadata ==
    [][lastOp'.op \in {"summary", "meeting", "meetingCached", "meetingAnalysisOk", "client"}
         => processedMetadata # Null]_vars

\* C7 as claimed: after a call of handleProcessThreads that found the
\* selection empty the error banner shows an error.
C7_EmptySelectionError ==
    lastOp.op = "processEmpty" => error # ""

\* C7 as amended: a call of handleProcessThreads with an empty selection
\* changes nothing: no request, no error, the flag, the metadata and the
\* analysis as they were.
C7_EmptySelectionIgnored ==
    [][(lastOp'.op \in {"process", "processEmpty"} /\ Len(selectedThreads) = 0)
         => UNCHANGED <<net, error, isProcessing, processedMetadata, analysisResults>>]_vars

\* C7, the case: the call came with metadata and an analysis in state and
\* no error shown.
C7_Witness ==
    /\ lastOp.op = "processEmpty"
    /\ selectedThreads = <<>>
    /\ processedMetadata # Null
    /\ analysisResults # Null
    /\ error = ""

\* The process call recorded in the history found an analysis cached for
\* the selection it is about to process.
ReplayOfProcessed ==
    /\ lastOp.op = "process"
    /\ lastOp.args[1] # Null
    /\ lastOp.args[2] # Null
    /\ lastOp.args[2].processed_thread_ids = selectedThreads

\* C8 as claimed: process run again for the processed selection keeps the
\* cached analysis.
C8_ReplayKeepsAnalysis ==
    ReplayOfProcessed => analysisResults = lastOp.args[1]

\* C8 as amended: process run again clears the cached analysis and the
\* metadata when it starts, also for the selection already processed.
C8_ProcessClearsAnalysis ==
    lastOp.op = "process" => (analysisResults = Null /\ processedMetadata = Null)

\* C8, the case: process was run again for the processed selection with an
\* analysis cached.
C8_Witness ==
    ReplayOfProcessed /\ analysisResults = Null

\* C9: a toggle, a select-all or a clear made with metadata present sets the
\* metadata and the cached analysis to absent.
C9_SelectionChangeInvalidates ==
    [][(lastOp'.op \in {"toggle", "selectAll", "clear"} /\ processedMetadata # Null)
         => (processedMetadata' = Null /\ analysisResults' = Null)]_vars

\* C10: no step taken with an analysis cached sends an analysis request,
\* and a meeting dossier started with an analysis cached sends that one.
C10_CachedAnalysisReused ==
    [][analysisResults # Null
         => /\ Cardinality(AnalysisRequests(net')) <= Cardinality(AnalysisRequests(net))
            /\ lastOp'.op = "meetingCached" => net'[Len(net')].analysis = analysisResults]_vars

\* C10, the case: the meeting dossier was started with an analysis cached
\* and its request carries that analysis.
C10_Witness ==
    /\ lastOp.op = "meetingCached"
    /\ analysisResults # Null
    /\ net[Len(net)].api = "generate_meeting_dossier"
    /\ net[Len(net)].analysis = analysisResults

\* C11 as claimed: when the analysis of a meeting dossier started without a
\* cached analysis arrives, it is the cached analysis from then on.
C11_MeetingCachesAnalysis ==
    [][lastOp'.op = "meetingAnalysisOk"
         => analysisResults' = net'[Len(net')].analysis]_vars

\* C11 as amended: the analysis that arrives is sent in the meeting-dossier
\* request, which is the handler's only request from then on, and the
\* cached analysis in state stays as it was.
C11_MeetingAnalysisNotCached ==
    [][lastOp'.op = "meetingAnalysisOk"
         => /\ analysisResults' = analysisResults
            /\ net'[Len(net')].api = "generate_meeting_dossier"
            /\ net'[Len(net')].analysis # Null
            /\ Cardinality(AnalysisRequests(net')) < Cardinality(AnalysisRequests(net))]_vars

\* C11, the case: the analysis arrived and the dossier request that carries
\* it is in flight, while no analysis is cached.
C11_Witness ==
    /\ lastOp.op = "meetingAnalysisOk"
    /\ processedMetadata # Null
    /\ analysisResults = Null
    /\ net[Len(net)].api = "generate_meeting_dossier"
    /\ net[Len(net)].analysis # Null

\* The client dossier is started with no analysis cached, no choice made by
\* the user and one client name in the metadata.
ClientFromMetadataOnly ==
    /\ processedMetadata # Null
    /\ Len(processedMetadata.available_client_names) = 1
    /\ analysisResults = Null
    /\ selectedClientName = <<>>
    /\ ~showCustomClientInput

\* C12 as claimed: the client dossier started with no analysis cached sends
\* an analysis request first.
C12_ClientAnalysisFirst ==
    [][(lastOp'.op = "client" /\ ClientFromMetadataOnly)
         => net'[Len(net')].api = "analyze_multiple_threads"]_vars

\* C12 as amended: the client dossier sends one client-dossier request for
\* the name of the metadata and no analysis request, neither when it is
\* started nor when its answer or its failure arrives.
C12_ClientDossierOnly ==
    [][/\ (lastOp'.op = "client" /\ ClientFromMetadataOnly)
           => /\ net' = Append(net, net'[Len(net')])
              /\ net'[Len(net')].api = "generate_client_dossier"
              /\ net'[Len(net')].name = processedMetadata.available_client_names[1]
              /\ Cardinality(InFlight("client")') = 1
       /\ lastOp'.op \in {"clientOk", "clientFailed"}
           => /\ Len(net') = Len(net) - 1
              /\ InFlight("client")' = {}
              /\ Cardinality(AnalysisRequests(net')) = Cardinality(AnalysisRequests(net))]_vars

\* C12, the case: after a search, a selection and a process that found the
\* client Acme, the client dossier arrived without any analysis made.
C12_Witness ==
    /\ lastOp.op = "clientOk"
    /\ clientDossier # Null
    /\ analysisResults = Null
    /\ selectedThreads # <<>>
    /\ processedMetadata # Null
    /\ processedMetadata.available_client_names = <<Acme>>
    /\ selectedClientName = <<>>
    /\ net = <<>>

\* C13: Start Over leaves the thread list as it is and sets the selection,
\* the metadata, the analysis, both dossiers, the client choice and the
\* custom client name to their empty values.
C13_StartOverKeepsResults ==
    [][lastOp'.op = "startOver"
         => /\ searchResults' = searchResults
            /\ selectedThreads' = <<>>
            /\ processedMetadata' = Null
            /\ analysisResults' = Null
            /\ meetingDossier' = Null
            /\ clientDossier' = Null
            /\ selectedClientName' = <<>>
            /\ customClientName' = <<>>
            /\ showCustomClientInput' = FALSE]_vars

\* C13, the case: Start Over was clicked with a selection, an analysis,
\* both dossiers and a typed custom name in state, and the thread list is
\* still shown.
C13_Witness ==
    /\ lastOp.op = "startOver"
    /\ lastOp.args[1] # <<>>
    /\ lastOp.args[2] # Null
    /\ lastOp.args[3] # Null
    /\ lastOp.args[4] # Null
    /\ lastOp.args[5] = custom
    /\ lastOp.args[6] # <<>>
    /\ searchResults # <<>>
    /\ selectedThreads = <<>>
    /\ customClientName = <<>>

SummaryOps == {"summaryNoMetadata", "summaryCached", "summary", "summaryOk", "summaryFailed"}
MeetingOps == {"meetingNoMetadata", "meetingCached", "meeting", "meetingAnalysisOk",
               "meetingOk", "meetingFailed"}
ClientOps == {"clientNoMetadata", "clientUnresolved", "client", "clientOk", "clientFailed"}

\* C14: no step of the meeting generation changes the client dossier or the
\* analysis, no step of the client generation changes the meeting dossier
\* or the analysis, and no step of the summary generation changes either
\* dossier, whether the step is a start, an answer or a failure.
C14_OtherKindsUntouched ==
    [][/\ lastOp'.op \in MeetingOps => UNCHANGED <<clientDossier, analysisResults>>
       /\ lastOp'.op \in ClientOps => UNCHANGED <<meetingDossier, analysisResults>>
       /\ lastOp'.op \in SummaryOps => UNCHANGED <<meetingDossier, clientDossier>>]_vars

\* C14, the case: the client dossier arrived with a meeting dossier and a
\* summary generated before it, and both are still there.
C14_Witness ==
    /\ lastOp.op = "clientOk"
    /\ clientDossier # Null
    /\ meetingDossier # Null
    /\ analysisResults # Null

Entities == <<searchResults, selectedThreads, processedMetadata, analysisResults,
              meetingDossier, clientDossier>>

FailureOps == {"searchFailed", "processFailed", "summaryFailed", "meetingFailed",
               "clientFailed"}

\* C15 as claimed: when process fails right after it was started, the
\* metadata and the analysis are what they were before it was started.
C15_FailureRestoresState ==
    [][(lastOp.op = "process" /\ lastOp'.op = "processFailed")
         => (processedMetadata' = lastOp.args[2] /\ analysisResults' = lastOp.args[1])]_vars

\* C15 as amended: the failure of a request changes no data entity; a
\* search has emptied all of them when it was started, a process has set
\* the metadata and the analysis to absent and kept the rest, and the
\* start of a generation has changed none.
C15_FailureKeepsCurrentState ==
    [][/\ lastOp'.op \in FailureOps => Entities' = Entities
       /\ lastOp'.op = "handleSearch" => Entities' = <<<<>>, <<>>, Null, Null, Null, Null>>
       /\ lastOp'.op = "process"
           => /\ processedMetadata' = Null
              /\ analysisResults' = Null
              /\ UNCHANGED <<searchResults, selectedThreads, meetingDossier, clientDossier>>
       /\ lastOp'.op \in {"summary", "meeting", "meetingCached", "client"}
           => Entities' = Entities]_vars

\* C15, the case: process failed for a selection that had been processed
\* before: the thread list, the selection and the meeting dossier made from
\* the earlier metadata are in place, the metadata is gone.
C15_Witness ==
    /\ lastOp.op = "processFailed"
    /\ error = ErrProcess
    /\ searchResults # <<>>
    /\ selectedThreads # <<>>
    /\ meetingDossier # Null
    /\ processedMetadata = Null
    /\ InFlight("process") = {}

SearchOps == {"handleSearch", "searchOk", "searchFailed"}
ProcessOps == {"processEmpty", "process", "processOk", "processFailed"}

\* The steps of the stage whose failure an error banner reports.
StageOps(banner) ==
    CASE banner \in {ErrSearchFailed, ErrAuthExpired} -> SearchOps
      [] banner = ErrProcess -> ProcessOps
      [] banner = ErrSummary -> SummaryOps
      [] banner = ErrMeeting -> MeetingOps
      [] banner = ErrClient -> ClientOps

FailureBanners == {ErrSearchFailed, ErrAuthExpired, ErrProcess, ErrSummary, ErrMeeting,
                   ErrClient}

AllStageOps == SearchOps \cup ProcessOps \cup SummaryOps \cup MeetingOps \cup ClientOps

\* C16 as claimed: the banner of a stage's failure is left as it is by
\* every step of another stage.
C16_ErrorStaysWithStage ==
    [][(error \in FailureBanners /\ lastOp'.op \in AllStageOps \ StageOps(error))
         => error' = error]_vars

\* C16 as amended: there is one error banner.  The start of a process or of
\* a generation empties it, a search sets it to empty or to its validation
\* message, a failure sets it to the message of the failed stage, and an
\* answer that arrives leaves it as it is.
C16_OneErrorBanner ==
    [][/\ lastOp'.op \in {"process", "summaryCached", "summary", "meetingCached",
                          "meeting", "client"} => error' = ""
       /\ lastOp'.op = "handleSearch" => error' \in {"", ErrKeywordRequired, ErrDateOrder}
       /\ lastOp'.op = "clientUnresolved" => error' = ErrNoClientName
       /\ lastOp'.op = "searchFailed" => error' \in {ErrSearchFailed, ErrAuthExpired}
       /\ lastOp'.op = "processFailed" => error' = ErrProcess
       /\ lastOp'.op = "summaryFailed" => error' = ErrSummary
       /\ lastOp'.op = "meetingFailed" => error' = ErrMeeting
       /\ lastOp'.op = "clientFailed" => error' = ErrClient
       /\ lastOp'.op \in {"searchOk", "processOk", "summaryOk", "meetingAnalysisOk",
                          "meetingOk", "clientOk"} => error' = error]_vars

\* C16, the case: the meeting dossier was started while the banner showed
\* the failure of the summary, and the banner is empty.
C16_Witness ==
    /\ lastOp.op = "meeting"
    /\ lastOp.args[1] = ErrSummary
    /\ error = ""
    /\ InFlight("meeting") # {}

\* The step is a call of handleGenerateClientDossierFromMetadata that got
\* past the test of the metadata.
ClientCall == lastOp'.op \in {"client", "clientUnresolved"}

\* The step sent a client-dossier request for this name.
ClientSent(name) ==
    /\ lastOp'.op = "client"
    /\ net' = Append(net, net'[Len(net')])
    /\ net'[Len(net')].api = "generate_client_dossier"
    /\ net'[Len(net')].name = name

\* The custom name holds a name that can be sent: not blank, and not the
\* text the handler takes for "no name".
CustomNameGiven ==
    Trim(customClientName) # <<>> /\ Trim(customClientName) # UnknownClient

\* C17 as claimed: a call made with a custom name typed sends that name,
\* whatever option is selected.
C17_CustomNameAlwaysWins ==
    [][(ClientCall /\ CustomNameGiven) => ClientSent(Trim(customClientName))]_vars

\* C17 as amended: a call made while the option "Other (Custom)" is the
\* selected one and a custom name is typed sends that name, trimmed,
\* whatever the analysis and the metadata name; once another option is
\* selected the typed name is kept in state but is not the name sent.
C17_CustomNameWinsWhileSelected ==
    [][/\ (ClientCall /\ CustomNameGiven /\ showCustomClientInput)
           => ClientSent(Trim(customClientName))
       /\ (ClientCall /\ CustomNameGiven /\ ~showCustomClientInput
              /\ selectedClientName \notin {<<>>, UnknownClient})
           => ClientSent(selectedClientName)]_vars

\* C17, the case: a padded custom name was sent trimmed while the analysis
\* and the metadata each name another client.
C17_Witness ==
    /\ lastOp.op = "client"
    /\ showCustomClientInput
    /\ customClientName = <<" ", "a">>
    /\ net[Len(net)].name = <<"a">>
    /\ analysisResults # Null
    /\ analysisResults.client_name = Zed
    /\ processedMetadata # Null
    /\ processedMetadata.available_client_names = <<Acme, Beta>>

\* A name that is present and is not the sentinel, whatever its case.
Usable(name) == name # <<>> /\ ToLowerCase(name) # unknown_client

\* The precedence table for an empty custom name: the user selection, else
\* the name of the analysis, else the first domain candidate, else <<>> for
\* unresolved.
PrecedenceTable ==
    LET aiName == IF analysisResults = Null THEN <<>> ELSE analysisResults.client_name
        candidates == processedMetadata.available_client_names
    IN  IF selectedClientName # <<>> /\ selectedClientName # custom THEN selectedClientName
        ELSE IF Usable(aiName) THEN aiName
        ELSE IF Len(candidates) > 0 /\ Usable(candidates[1]) THEN candidates[1]
        ELSE <<>>

\* C18: a call made with an empty custom name and at most one domain
\* candidate sends the name of the precedence table, and sends nothing when
\* the table leaves the client unresolved; a name of the analysis that is
\* the sentinel falls through to the domain candidate.
C18_PrecedenceTable ==
    [][(ClientCall /\ customClientName = <<>>
          /\ Len(processedMetadata.available_client_names) <= 1)
         => IF PrecedenceTable = <<>> THEN lastOp'.op = "clientUnresolved" /\ net' = net
            ELSE ClientSent(PrecedenceTable)]_vars

\* C19: a call made with more than one domain candidate, and no custom
\* name, selection or name of the analysis to decide, sends no request.
C19_NoSilentPick ==
    [][(ClientCall /\ Len(processedMetadata.available_client_names) > 1
          /\ ~(showCustomClientInput /\ Trim(customClientName) # <<>>)
          /\ selectedClientName \in {<<>>, custom}
          /\ (analysisResults = Null \/ ~Usable(analysisResults.client_name)))
         => (lastOp'.op = "clientUnresolved" /\ net' = net)]_vars

\* C20: a step of an authentication lapse (the logout, the check of the
\* authentication status, the failure of a search with a 401 answer) leaves
\* the thread list, the selection, the metadata, the analysis and the
\* dossiers as they are.
C20_AuthLapseKeepsState ==
    [][(\/ lastOp'.op \in {"logout", "checkAuthStatus"}
        \/ lastOp'.op = "searchFailed" /\ error' = ErrAuthExpired)
         => Entities' = Entities]_vars

\* The steps that send a request when they change what is in flight.
SendingOps == {"handleSearch", "process", "summary", "meeting", "meetingCached",
               "meetingAnalysisOk", "client", "unmountedMeetingAnalysisOk"}

\* C21: a step that sends a request to the search, metadata, analysis or
\* dossier service is taken with the authenticated flag set.
C21_NoRequestWhileLoggedOut ==
    [][(lastOp'.op \in SendingOps /\ (net' # net \/ unmounted' # unmounted))
         => isAuthenticated]_vars

\* C27: after the summary was asked for with an analysis cached, the
\* analysis is still present.
C27_SummaryKeepsCachedAnalysis ==
    lastOp.op = "summaryCached" => analysisResults # Null

\* C28: metadata that is present names only threads of the thread list.
C28_MetadataOfCurrentResults ==
    processedMetadata # Null
        => Range(processedMetadata.processed_thread_ids) \subseteq Range(searchResults)

NoDuplicates(s) == Cardinality(Range(s)) = Len(s)

\* C30, the case: with thread 1 selected out of the list 2, 1, select-all
\* has added thread 2.
C30_Witness ==
    /\ lastOp.op = "selectAll"
    /\ searchResults = <<2, 1>>
    /\ selectedThreads = <<1, 2>>

\* C30: the selection has no id twice and only ids of the thread list; a
\* toggle changes the membership of one id of the list and of no other,
\* toggling an id twice gives the set there was, select-all on a list of
\* threads (no id in two rows) that is not fully selected gives all ids of
\* the list, select-all on a fully selected list and clear give the empty
\* selection.
C30_SelectionIsASet ==
    [][/\ NoDuplicates(selectedThreads')
       /\ Range(selectedThreads') \subseteq Range(searchResults')
       /\ lastOp'.op = "toggle"
           => \E id \in Range(searchResults) :
                 /\ (id \in Range(selectedThreads')) # (id \in Range(selectedThreads))
                 /\ Range(selectedThreads') \ {id} = Range(selectedThreads) \ {id}
                 /\ Range(Toggle(selectedThreads', id)) = Range(selectedThreads)
       /\ (lastOp'.op = "selectAll" /\ ~allSelected /\ NoDuplicates(searchResults))
           => Range(selectedThreads') = Range(searchResults)
       /\ (lastOp'.op = "selectAll" /\ allSelected) => selectedThreads' = <<>>
       /\ lastOp'.op = "clear" => selectedThreads' = <<>>]_vars

\* C29: each of the five busy flags, once set, is cleared again when the
\* services answer; and the step of a failure or of a rejected search
\* leaves the flag of its stage clear.
C29_FlagsEventuallyCleared ==
    /\ isLoading ~> ~isLoading
    /\ isProcessing ~> ~isProcessing
    /\ isAnalyzing ~> ~isAnalyzing
    /\ isGeneratingMeeting ~> ~isGeneratingMeeting
    /\ isGeneratingClient ~> ~isGeneratingClient
    /\ [][/\ (lastOp'.op = "handleSearch" /\ net' = net) => ~isLoading'
          /\ lastOp'.op = "searchFailed" => ~isLoading'
          /\ lastOp'.op = "processFailed" => ~isProcessing'
          /\ lastOp'.op = "summaryFailed" => ~isAnalyzing'
          /\ lastOp'.op = "meetingFailed" => ~isGeneratingMeeting'
          /\ lastOp'.op \in {"clientFailed", "clientUnresolved"} => ~isGeneratingClient']_vars

\* C29, the case: the meeting dossier failed, its flag is clear and the
\* button that starts it is enabled again.
C29_Witness ==
    /\ lastOp.op = "meetingFailed"
    /\ error = ErrMeeting
    /\ ~isGeneratingMeeting
    /\ GenerateShown
    /\ ~MeetingFlowDisabled

\* C22: a conversion applied to the markup it has produced returns that
\* markup: no list is wrapped a second time, no line break is added or lost.
C22_ConversionIdempotent == report.pass = MaxPass => report.html = report.text

\* C23: the markup that becomes the innerHTML of a report holds no tag that
\* came with the text.
C23_NoActiveContent == report.pass >= 1 => ~Includes(report.html, "<script>")

\* The summaries of a list of groups, a malformed group giving none
RECURSIVE SummariesOf(_)
SummariesOf(groups) ==
    IF groups = <<>> THEN <<>>
    ELSE (IF Head(groups) # Null /\ IsArray(Head(groups).email_summaries)
          THEN Head(groups).email_summaries.array ELSE <<>>)
             \o SummariesOf(Tail(groups))

\* The summaries by the stated order of the sources: the groups of the
\* relevancy analysis, else the groups of the structured analysis, else
\* its summaries as one group, else none.
StatedSummaries(props) ==
    LET structuredAnalysis == props.structuredAnalysis
        relevancyAnalysis == props.relevancyAnalysis
    IN IF relevancyAnalysis # Null /\ NonEmptyArray(relevancyAnalysis.relevant_groups)
       THEN SummariesOf(relevancyAnalysis.relevant_groups.array)
       ELSE IF NonEmptyArray(structuredAnalysis.groups)
       THEN SummariesOf(structuredAnalysis.groups.array)
       ELSE IF IsArray(structuredAnalysis.email_summaries)
       THEN structuredAnalysis.email_summaries.array
       ELSE <<>>

\* C24: the summaries of a structured analysis are those of
\* relevancyAnalysis.relevant_groups when present, else of
\* structuredAnalysis.groups, else structuredAnalysis.email_summaries;
\* whatever is missing or malformed, the function returns (an empty list
\* is the state without summaries) and does not throw.
C24_SummarySourcePrecedence ==
    (report.fn = "getConsolidatedSummaries" /\ report.props.structuredAnalysis # Null)
        => /\ ~Threw(report.result)
           /\ report.result.returned = StatedSummaries(report.props)

\* The standalone threads as the props give them
ThreadsOf(analysis) ==
    IF analysis # Null /\ IsArray(analysis.irrelevant_threads)
    THEN analysis.irrelevant_threads.array ELSE <<>>

Mentions(summary, rawThread) ==
    /\ rawThread.subject # "" => Includes(summary.words, rawThread.subject)
    /\ Includes(summary.words, Count(rawThread.message_count))

\* C25: every standalone thread that is returned has a summary that is not
\* empty, and the threads that come without an analysis, from
\* relevancyAnalysis.irrelevant_threads, each get a summary that names
\* their subject and their message count.
C25_StandaloneSummaries ==
    report.fn = "getIrrelevantThreads" =>
        LET threads == report.result.returned
            raw == ThreadsOf(report.props.relevancyAnalysis)
        IN /\ \A i \in 1..Len(threads) :
                  IsString(threads[i].summary) /\ threads[i].summary.words # <<>>
           /\ (ThreadsOf(report.props.structuredAnalysis) = <<>> /\ raw # <<>>)
                  => /\ Len(threads) = Len(raw)
                     /\ \A i \in 1..Len(raw) : Mentions(threads[i].summary, raw[i])

\* The placeholder, and the bullets whose only label is the placeholder
UnknownSender == <<{"unknown"}, {"sender"}>>

OnlyPlaceholders(bullet) ==
    \A pattern \in Range(unknownPatterns) \cup Range(genericPatterns) :
        ~Found(Replace(bullet, UnknownSender, "someone"), pattern)

Named(participants, emails) ==
    SelectSeq(emails, LAMBDA e : /\ Participant(participants, LowerWord(e)) # Null
                                 /\ Participant(participants, LowerWord(e)).display_name # "")

\* The bullet as stated: the name of the participant whose e-mail is in the
\* bullet, else the name of the first participant, else no change
StatedBullet(bullet, participants) ==
    LET named == Named(participants, emailsInSummary(bullet))
    IN IF ~Found(bullet, UnknownSender) THEN bullet
       ELSE IF named # <<>>
       THEN Replace(bullet, UnknownSender,
                    Participant(participants, LowerWord(named[1])).display_name)
       ELSE IF participants # <<>> /\ participants[1].display_name # ""
       THEN Replace(bullet, UnknownSender, participants[1].display_name)
       ELSE bullet

KnownParticipants(props) ==
    IF getThreadSummary(props) = Null THEN <<>> ELSE getThreadSummary(props).participants

\* C26: in a bullet with the placeholder "Unknown Sender" the placeholder
\* becomes the display name of the participant whose e-mail the bullet
\* holds, else that of the first participant if there is one, else it
\* stays; a bullet without a label stays as it is.
C26_PlaceholderRewritten ==
    (/\ report.fn = "getConsolidatedSummaries"
     /\ OnlyPlaceholders(report.props.structuredAnalysis.email_summaries.array[1].words))
        => report.result.returned[1].words
               = StatedBullet(report.props.structuredAnalysis.email_summaries.array[1].words,
                              KnownParticipants(report.props))

====
